---------------------------- MODULE Spec2Model ----------------------------
(***************************************************************************)
(* hyperfade: monotonic clock (lib/time.js), expiry predicate (lib/meta.js),*)
(* GC run (lib/gc.js) and the automatic GC scheduler (lib/auto-gc.js).      *)
(*                                                                         *)
(* Time.  SpecClock explores the clock over an arbitrary small integer      *)
(* timeline with arbitrary tolerances.  In the specifications that use the  *)
(* clock with its default tolerances, one unit of model time is TimeUnitMs  *)
(* milliseconds and every wall-clock reading lies on that grid; for grid    *)
(* values a and c and 0 <= b < TimeUnitMs,  a + b < c  iff  a < c, so the   *)
(* default tolerances divided by the unit decide every comparison of the    *)
(* code exactly as the millisecond values do.                               *)
(***************************************************************************)
EXTENDS Integers, Sequences, FiniteSets, TLC

VARIABLES
  wall,              \* Date.now(): the underlying wall-clock reading
  last,              \* time.js: let last
  startTime,         \* time.js: const startTime
  maxBackwardsMs,    \* time.js: options.maxBackwardsMs
  maxForwardMs,      \* time.js: options.maxForwardMs
  ret,               \* value returned by the latest call of now()
  hasRet,            \* whether now() has been called on this instance
  timer,             \* auto-gc.js: let timer
  activeTimers,      \* intervals registered with setInterval and not cleared
  consecutiveErrors, \* auto-gc.js: let consecutiveErrors
  runs,              \* GC runs started by tick() whose promise chain is pending
  diag,              \* console output of the latest step
  unhandled,         \* a rejection left the tick's promise chain unhandled
  metas,             \* what ctx.listMetas resolves to
  hasOnExpire,       \* whether ctx.onExpire is supplied
  expiredLog,        \* ids ctx.onExpire has been invoked with
  lastOp,            \* the operation that ran last
  tickLog,           \* outcome of each tick since the last effective start()
  failsSinceReset,   \* tick failures settled since the last success / start()
  stopCause,         \* what stopped the scheduler last: "none", "self" or "caller"
  drive,             \* the files of the Hyperdrive under the prefix
  hyperOpts,         \* options of createHyperdriveEphemeralContext
  hyperLast,         \* the latest call of the Hyperdrive context and its outcome
  backend,           \* how the drive's del behaves and whether it has exists
  libCall            \* a direct call of a library function: arguments and result

clockVars == <<wall, last, startTime, maxBackwardsMs, maxForwardMs, ret, hasRet>>
schedVars == <<timer, activeTimers, consecutiveErrors, runs, diag, unhandled>>
ctxVars   == <<metas, hasOnExpire, expiredLog>>
ghostVars == <<lastOp, tickLog, failsSinceReset, stopCause>>
driveVars == <<drive, hyperOpts, hyperLast, backend>>
libVars   == <<libCall>>
vars      == <<clockVars, schedVars, ctxVars, ghostVars, driveVars, libVars>>

---------------------------------------------------------------------------
(* Bounds of the model *)

MaxWall == 4          \* SpecClock: wall-clock readings are 0..MaxWall
MaxOpt == 2           \* SpecClock: tolerances are 0..MaxOpt
MaxRuns == 2          \* GC runs in flight at once
MaxTicks == 6         \* ticks recorded in tickLog per Running period
MaxTime == 1          \* Spec: the caller's clock returns NaN or one of 0..MaxTime
MaxWallSteps == 3     \* SpecHyper: wall-clock readings are 0..MaxWallSteps units
MaxMetas == 3         \* SpecGC: entries in the listing of a direct GC run
MaxDriveTime == 1     \* SpecDrive: wall-clock readings are 0..MaxDriveTime units
MaxStrLen == 3        \* SpecValidate: characters spelled out in an argument
MaxAdapterFiles == 3  \* SpecAdapter: files written to the drive

---------------------------------------------------------------------------
(* JavaScript values that reach the code *)

NULL == [t |-> "null", v |-> 0]
Undefined == [t |-> "undef", v |-> 0]
NaN == [t |-> "nan", v |-> 0]
Num(n) == [t |-> "num", v |-> n]

Infinity == [t |-> "inf", v |-> 0]
\* A string: the characters s followed by pad times the letter "a".
Padded(s, n) == [t |-> "str", s |-> s, pad |-> n]
Str(s) == Padded(s, 0)
StrLength(x) == Len(x.s) + x.pad
Includes(x, c) == \E i \in 1..Len(x.s) : x.s[i] = c
IncludesDotDot(x) == \E i \in 1..(Len(x.s) - 1) : x.s[i] = "." /\ x.s[i + 1] = "."
\* The characters of the model's alphabet that match [a-zA-Z0-9_-].
WordChars == {"a", "b", "e", "j", "m", "n", "o", "s", "t", "A", "Z", "0", "9", "_", "-"}
FullMeta(i, c, u, ul, e) ==
  [t |-> "obj", id |-> i, createdAt |-> c, updatedAt |-> u, unlockAt |-> ul, expiresAt |-> e]
\* x.f of JavaScript for a value that is not null or undefined.
Field(x, f) == IF x.t = "obj" THEN x[f] ELSE Undefined

TypeofNumber(x) == x.t \in {"num", "nan", "inf"}
TypeofString(x) == x.t = "str"
TypeofObject(x) == x.t \in {"obj", "arr", "null"}
IsFinite(x) == x.t = "num"

---------------------------------------------------------------------------
(* lib/time.js *)

TimeUnitMs == 60 * 60 * 1000
DefaultMaxBackwardsMs == 1000
DefaultMaxForwardMs == 60 * 60 * 1000

\* now() returning the raw reading after a backward jump.
nowMutNoTolerance(current, lst, start, maxB, maxF) ==
  IF current > start + maxF
    THEN LET m == IF current < start + maxF THEN current ELSE start + maxF
         IN  [last |-> m, value |-> m]
  ELSE IF current >= lst
    THEN [last |-> current, value |-> current]
  ELSE [last |-> lst, value |-> current]

\* now() without the test of `current > startTime + maxForwardMs`.
nowMutNoClamp(current, lst, start, maxB, maxF) ==
  IF current + maxB < lst
    THEN [last |-> lst, value |-> lst]
  ELSE IF current >= lst
    THEN [last |-> current, value |-> current]
  ELSE [last |-> lst, value |-> lst]

\* now() returning the raw reading after a backward jump within the tolerance.
nowMutFollowsSmallJumps(current, lst, start, maxB, maxF) ==
  IF current > start + maxF
    THEN LET m == IF current < start + maxF THEN current ELSE start + maxF
         IN  [last |-> m, value |-> m]
  ELSE IF current + maxB < lst
    THEN [last |-> lst, value |-> lst]
  ELSE IF current >= lst
    THEN [last |-> current, value |-> current]
  ELSE [last |-> lst, value |-> current]

\* The body of now(): the value returned and the new value of `last`.
now(current, lst, start, maxB, maxF) ==
  IF current > start + maxF
    THEN LET m == IF current < start + maxF THEN current ELSE start + maxF
         IN  [last |-> m, value |-> m]
  ELSE IF current + maxB < lst
    THEN [last |-> lst, value |-> lst]
  ELSE IF current >= lst
    THEN [last |-> current, value |-> current]
  ELSE [last |-> lst, value |-> lst]

\* createMonotonicNow(options) at wall-clock reading w.
createMonotonicNow(w, maxB, maxF) ==
  /\ last = w
  /\ startTime = w
  /\ maxBackwardsMs = maxB
  /\ maxForwardMs = maxF
  /\ ret = 0
  /\ hasRet = FALSE

\* One call of the clock function.
NowCall ==
  LET r == now(wall, last, startTime, maxBackwardsMs, maxForwardMs)
  IN  /\ last' = r.last
      /\ ret' = r.value
      /\ hasRet' = TRUE
      /\ UNCHANGED <<wall, startTime, maxBackwardsMs, maxForwardMs>>

\* The system clock is set to any value (SpecClock).
WallJump ==
  /\ wall' \in 0..MaxWall
  /\ UNCHANGED <<last, startTime, maxBackwardsMs, maxForwardMs, ret, hasRet>>

---------------------------------------------------------------------------
(* lib/meta.js *)

ModuleLoadTime == 0   \* wall-clock reading when lib/meta.js is loaded
HundredYears == 100 * 365 * 24 * ((60 * 60 * 1000) \div TimeUnitMs)
MAX_TIMESTAMP == ModuleLoadTime + HundredYears

\* `!x` of JavaScript for the values above.
Falsy(x) ==
  \/ x.t \in {"null", "undef", "nan"}
  \/ (x.t = "num" /\ x.v = 0)
  \/ (x.t = "str" /\ StrLength(x) = 0)

validateTimestamp(ts, min, max) ==
  IF ~TypeofNumber(ts) THEN FALSE
  ELSE IF ~IsFinite(ts) THEN FALSE
  ELSE IF ts.v < min \/ ts.v > max THEN FALSE
  ELSE TRUE

\* isExpired with the exclusive comparison `meta.expiresAt < now`.
isExpiredMutExclusive(meta, nowv) ==
  IF Falsy(meta) THEN [throws |-> FALSE, value |-> TRUE]
  ELSE IF ~TypeofNumber(nowv) \/ ~IsFinite(nowv) THEN [throws |-> TRUE, value |-> FALSE]
  ELSE IF ~TypeofNumber(meta.expiresAt) THEN [throws |-> FALSE, value |-> FALSE]
  ELSE IF ~validateTimestamp(meta.expiresAt, 0, MAX_TIMESTAMP)
    THEN [throws |-> FALSE, value |-> FALSE]
  ELSE [throws |-> FALSE, value |-> meta.expiresAt.v < nowv.v]

\* isExpired without the check of `now`: every comparison with it is false.
isExpiredMutNoNowCheck(meta, nowv) ==
  IF Falsy(meta) THEN [throws |-> FALSE, value |-> TRUE]
  ELSE IF ~TypeofNumber(meta.expiresAt) THEN [throws |-> FALSE, value |-> FALSE]
  ELSE IF ~validateTimestamp(meta.expiresAt, 0, MAX_TIMESTAMP)
    THEN [throws |-> FALSE, value |-> FALSE]
  ELSE [throws |-> FALSE, value |-> IsFinite(nowv) /\ meta.expiresAt.v <= nowv.v]

\* isExpired(meta, now): whether it throws, and the value it returns if not.
isExpired(meta, nowv) ==
  IF Falsy(meta) THEN [throws |-> FALSE, value |-> TRUE]
  ELSE IF ~TypeofNumber(nowv) \/ ~IsFinite(nowv) THEN [throws |-> TRUE, value |-> FALSE]
  ELSE IF ~TypeofNumber(meta.expiresAt) THEN [throws |-> FALSE, value |-> FALSE]
  ELSE IF ~validateTimestamp(meta.expiresAt, 0, MAX_TIMESTAMP)
    THEN [throws |-> FALSE, value |-> FALSE]
  ELSE [throws |-> FALSE, value |-> meta.expiresAt.v <= nowv.v]

\* isUnlocked with the exclusive comparison `meta.unlockAt < now`.
isUnlockedMutExclusive(meta, nowv) ==
  IF Falsy(meta) THEN [throws |-> FALSE, value |-> FALSE]
  ELSE IF ~TypeofNumber(nowv) \/ ~IsFinite(nowv) THEN [throws |-> TRUE, value |-> FALSE]
  ELSE IF ~TypeofNumber(meta.unlockAt) THEN [throws |-> FALSE, value |-> TRUE]
  ELSE IF ~validateTimestamp(meta.unlockAt, 0, MAX_TIMESTAMP)
    THEN [throws |-> FALSE, value |-> TRUE]
  ELSE [throws |-> FALSE, value |-> meta.unlockAt.v < nowv.v]

\* isUnlocked(meta, now): whether it throws, and the value it returns if not.
isUnlocked(meta, nowv) ==
  IF Falsy(meta) THEN [throws |-> FALSE, value |-> FALSE]
  ELSE IF ~TypeofNumber(nowv) \/ ~IsFinite(nowv) THEN [throws |-> TRUE, value |-> FALSE]
  ELSE IF ~TypeofNumber(meta.unlockAt) THEN [throws |-> FALSE, value |-> TRUE]
  ELSE IF ~validateTimestamp(meta.unlockAt, 0, MAX_TIMESTAMP)
    THEN [throws |-> FALSE, value |-> TRUE]
  ELSE [throws |-> FALSE, value |-> meta.unlockAt.v <= nowv.v]

\* isVisible returning `isUnlocked(meta, now)` alone.
isVisibleMutIgnoresExpiry(meta, nowv) == isUnlocked(meta, nowv)

\* isVisible(meta, now): `&&` calls isExpired only when isUnlocked returned true.
isVisible(meta, nowv) ==
  LET u == isUnlocked(meta, nowv)
      x == isExpired(meta, nowv)
  IN  IF u.throws THEN [throws |-> TRUE, value |-> FALSE]
      ELSE IF ~u.value THEN [throws |-> FALSE, value |-> FALSE]
      ELSE IF x.throws THEN [throws |-> TRUE, value |-> FALSE]
      ELSE [throws |-> FALSE, value |-> ~x.value]

Meta(i, e) == [t |-> "obj", id |-> i, expiresAt |-> e]

---------------------------------------------------------------------------
(* lib/gc.js *)

\* The for-loop of runEphemeralGC from entry i on, up to its next await:
\* "expiring" is the await of ctx.onExpire(list[idx]); "fulfilled" and
\* "rejected" are the settled promise of the run.
\* The loop without `if (!isExpired(meta, now)) continue`.
RECURSIVE gcLoopMutNoExpiryCheck(_, _, _, _, _)
gcLoopMutNoExpiryCheck(list, i, nowv, expired, onExp) ==
  IF i > Len(list) THEN [pc |-> "fulfilled", idx |-> i, expired |-> expired]
  ELSE IF Falsy(list[i]) THEN gcLoopMutNoExpiryCheck(list, i + 1, nowv, expired, onExp)
  ELSE IF onExp THEN [pc |-> "expiring", idx |-> i, expired |-> expired]
  ELSE gcLoopMutNoExpiryCheck(list, i + 1, nowv, expired + 1, onExp)

\* The loop reading the system clock again for each record.
RECURSIVE gcLoopMutResample(_, _, _, _, _)
gcLoopMutResample(list, i, nowv, expired, onExp) ==
  LET cur == IF nowv.t = "num" THEN Num(wall) ELSE nowv
  IN  IF i > Len(list) THEN [pc |-> "fulfilled", idx |-> i, expired |-> expired]
      ELSE IF Falsy(list[i]) THEN gcLoopMutResample(list, i + 1, nowv, expired, onExp)
      ELSE IF isExpired(list[i], cur).throws
        THEN [pc |-> "rejected", idx |-> i, expired |-> expired]
      ELSE IF ~isExpired(list[i], cur).value
        THEN gcLoopMutResample(list, i + 1, nowv, expired, onExp)
      ELSE IF onExp THEN [pc |-> "expiring", idx |-> i, expired |-> expired]
      ELSE gcLoopMutResample(list, i + 1, nowv, expired + 1, onExp)

\* The loop with `if (!meta) break`.
RECURSIVE gcLoopMutStopsAtAbsent(_, _, _, _, _)
gcLoopMutStopsAtAbsent(list, i, nowv, expired, onExp) ==
  IF i > Len(list) THEN [pc |-> "fulfilled", idx |-> i, expired |-> expired]
  ELSE IF Falsy(list[i]) THEN [pc |-> "fulfilled", idx |-> Len(list) + 1, expired |-> expired]
  ELSE IF isExpired(list[i], nowv).throws
    THEN [pc |-> "rejected", idx |-> i, expired |-> expired]
  ELSE IF ~isExpired(list[i], nowv).value
    THEN gcLoopMutStopsAtAbsent(list, i + 1, nowv, expired, onExp)
  ELSE IF onExp THEN [pc |-> "expiring", idx |-> i, expired |-> expired]
  ELSE gcLoopMutStopsAtAbsent(list, i + 1, nowv, expired + 1, onExp)

RECURSIVE gcLoop(_, _, _, _, _)
gcLoop(list, i, nowv, expired, onExp) ==
  IF i > Len(list) THEN [pc |-> "fulfilled", idx |-> i, expired |-> expired]
  ELSE IF Falsy(list[i]) THEN gcLoop(list, i + 1, nowv, expired, onExp)
  ELSE IF isExpired(list[i], nowv).throws
    THEN [pc |-> "rejected", idx |-> i, expired |-> expired]
  ELSE IF ~isExpired(list[i], nowv).value THEN gcLoop(list, i + 1, nowv, expired, onExp)
  ELSE IF onExp THEN [pc |-> "expiring", idx |-> i, expired |-> expired]
  ELSE gcLoop(list, i + 1, nowv, expired + 1, onExp)

\* The loop calling ctx.onExpire(meta) twice for a record.
AdvancedMutInvokesTwice(run, r) ==
  [run EXCEPT !.pc = r.pc, !.idx = r.idx, !.expired = r.expired,
              !.invoked = IF r.pc = "expiring" THEN @ \o <<r.idx, r.idx>> ELSE @,
              !.err = IF r.pc = "rejected" THEN "isExpired" ELSE @]

\* A run after the loop advanced to r; entering "expiring" is the call of
\* ctx.onExpire(list[idx]).
Advanced(run, r) ==
  [run EXCEPT !.pc = r.pc, !.idx = r.idx, !.expired = r.expired,
              !.invoked = IF r.pc = "expiring" THEN Append(@, r.idx) ELSE @,
              !.err = IF r.pc = "rejected" THEN "isExpired" ELSE @]

\* runEphemeralGC up to `await normalizeList(ctx.listMetas)`: the clock is
\* sampled and the listing requested.
runEphemeralGC(nowv, tickNo) ==
  [t |-> "run", pc |-> "listing", now |-> nowv, list |-> <<>>, idx |-> 1,
   expired |-> 0, invoked |-> <<>>, err |-> "none", tick |-> tickNo]

\* What ctx.listMetas() does when called: `kind` is "throws" (the call itself
\* throws), "promise" (a promise fulfilled with the array `items`), "rejects"
\* (a rejected promise), "asyncIterable" (an async sequence yielding `items`,
\* throwing after `failAfter` of them when failAfter is a number), "array"
\* (the plain array, no promise) or "undefined".
ListFn(kind, items, failAfter) == [kind |-> kind, items |-> items, failAfter |-> failAfter]

\* The for-await loop that stops after its first item.
RECURSIVE collectListMutFirstOnly(_, _, _)
collectListMutFirstOnly(fn, i, list) ==
  IF fn.failAfter = Num(i - 1) THEN [ok |-> FALSE, list |-> list]
  ELSE IF i > Len(fn.items) \/ i > 1 THEN [ok |-> TRUE, list |-> list]
  ELSE collectListMutFirstOnly(fn, i + 1, Append(list, fn.items[i]))

\* `for await (const item of result) list.push(item)` from item i on; the
\* sequence throws when asked for the item after the failAfter-th.
RECURSIVE collectList(_, _, _)
collectList(fn, i, list) ==
  IF fn.failAfter = Num(i - 1) THEN [ok |-> FALSE, list |-> list]
  ELSE IF i > Len(fn.items) THEN [ok |-> TRUE, list |-> list]
  ELSE collectList(fn, i + 1, Append(list, fn.items[i]))

\* normalizeList resolving to what had been collected when the sequence threw.
normalizeListMutKeepsPartial(fn) ==
  IF fn.kind = "throws" THEN [ok |-> FALSE, list |-> <<>>]
  ELSE IF fn.kind = "rejects" THEN [ok |-> FALSE, list |-> <<>>]
  ELSE IF fn.kind = "promise" THEN [ok |-> TRUE, list |-> fn.items]
  ELSE IF fn.kind # "asyncIterable" THEN [ok |-> FALSE, list |-> <<>>]
  ELSE [ok |-> TRUE, list |-> collectList(fn, 1, <<>>).list]

\* normalizeList(fn): ok with the array, or the error rethrown by its catch.
normalizeList(fn) ==
  IF fn.kind = "throws" THEN [ok |-> FALSE, list |-> <<>>]
  ELSE IF fn.kind = "rejects" THEN [ok |-> FALSE, list |-> <<>>]
  ELSE IF fn.kind = "promise" THEN [ok |-> TRUE, list |-> fn.items]
  ELSE IF fn.kind # "asyncIterable" THEN [ok |-> FALSE, list |-> <<>>]
  ELSE IF collectList(fn, 1, <<>>).ok THEN [ok |-> TRUE, list |-> collectList(fn, 1, <<>>).list]
  ELSE [ok |-> FALSE, list |-> <<>>]

\* The rest of a run that has listed: every `await ctx.onExpire(meta)` is
\* answered at once, with a rejection for the records whose id is in failIds.
RECURSIVE gcRunFrom(_, _, _)
gcRunFrom(run, onExp, failIds) ==
  IF run.pc # "expiring" THEN run
  ELSE IF run.list[run.idx].id \in failIds
    THEN [run EXCEPT !.pc = "rejected", !.err = "onExpire"]
  ELSE gcRunFrom(Advanced(run, gcLoop(run.list, run.idx + 1, run.now, run.expired + 1, onExp)),
                 onExp, failIds)

\* runEphemeralGC({listMetas: fn, onExpire}, {nowFn}) from call to settlement.
gcRun(fn, nowv, onExp, failIds) ==
  LET n == normalizeList(fn)
      r == runEphemeralGC(nowv, 0)
  IN  IF ~n.ok THEN [r EXCEPT !.pc = "rejected", !.err = "listMetas"]
      ELSE gcRunFrom(Advanced([r EXCEPT !.list = n.list], gcLoop(n.list, 1, nowv, 0, onExp)),
                     onExp, failIds)

InFlight == {s \in 1..MaxRuns : runs[s] # NULL}
FreeSlots == {s \in 1..MaxRuns : runs[s] = NULL}
\* Promise reactions (microtasks) run before the next timer or I/O callback.
ReactionPending == \E s \in InFlight : runs[s].pc \in {"fulfilled", "rejected"}

---------------------------------------------------------------------------
(* lib/hyperdrive-adapter.js: validation and encoding *)

MaxComponentLength == 255
MAX_META_SIZE == 5 * 1024 * 1024

\* sanitizePathComponent cutting an overlong component down to the limit.
sanitizePathComponentMutTruncates(component) ==
  IF ~TypeofString(component) THEN NULL
  ELSE IF IncludesDotDot(component) \/ Includes(component, "/") \/ Includes(component, "\\")
    THEN NULL
  ELSE IF StrLength(component) = 0 THEN NULL
  ELSE IF StrLength(component) > MaxComponentLength
    THEN Padded(component.s, MaxComponentLength - Len(component.s))
  ELSE component

\* sanitizePathComponent(component): the component, or null.
sanitizePathComponent(component) ==
  IF ~TypeofString(component) THEN NULL
  ELSE IF IncludesDotDot(component) \/ Includes(component, "/") \/ Includes(component, "\\")
    THEN NULL
  ELSE IF StrLength(component) = 0 \/ StrLength(component) > MaxComponentLength THEN NULL
  ELSE component

\* validateMetaId with `id.length >= 255` refused.
validateMetaIdMutOffByOne(id) ==
  IF ~TypeofString(id) THEN FALSE
  ELSE IF StrLength(id) = 0 \/ StrLength(id) >= MaxComponentLength THEN FALSE
  ELSE IF ~(\A i \in 1..Len(id.s) : id.s[i] \in WordChars) THEN FALSE
  ELSE TRUE

validateMetaId(id) ==
  IF ~TypeofString(id) THEN FALSE
  ELSE IF StrLength(id) = 0 \/ StrLength(id) > MaxComponentLength THEN FALSE
  ELSE IF ~(\A i \in 1..Len(id.s) : id.s[i] \in WordChars) THEN FALSE
  ELSE TRUE

\* JSON text: a value is written as a token; a text that is no JSON at all
\* is Garbage, JHuge is a number literal beyond the double range (1e999).
JAbsent == [t |-> "jabsent", v |-> 0]
JNull == [t |-> "jnull", v |-> 0]
JHuge == [t |-> "jhuge", v |-> 0]
JArr == [t |-> "jarr", v |-> 0]
Garbage == [t |-> "garbage", v |-> 0]
JNum(n) == [t |-> "jnum", v |-> n]
JStr(x) == [t |-> "jstr", s |-> x.s, pad |-> x.pad]
JObj(i, c, u, ul, e) ==
  [t |-> "jobj", id |-> i, createdAt |-> c, updatedAt |-> u, unlockAt |-> ul, expiresAt |-> e]

\* JSON.stringify of a property value: undefined is left out, NaN and
\* Infinity are written as null.
Token(x) ==
  CASE x.t = "undef" -> JAbsent
    [] x.t \in {"null", "nan", "inf"} -> JNull
    [] x.t = "num" -> JNum(x.v)
    [] x.t = "str" -> JStr(x)

JSONstringify(x) ==
  IF x.t = "obj"
    THEN JObj(Token(x.id), Token(x.createdAt), Token(x.updatedAt),
              Token(x.unlockAt), Token(x.expiresAt))
  ELSE Token(x)

ParsedToken(k) ==
  CASE k.t = "jabsent" -> Undefined
    [] k.t = "jnull" -> NULL
    [] k.t = "jhuge" -> Infinity
    [] k.t = "jnum" -> Num(k.v)
    [] k.t = "jstr" -> Padded(k.s, k.pad)

\* JSON.parse(text): whether it throws, and the value if not.
JSONparse(text) ==
  IF text.t = "garbage" THEN [throws |-> TRUE, value |-> Undefined]
  ELSE IF text.t = "jobj"
    THEN [throws |-> FALSE,
          value |-> FullMeta(ParsedToken(text.id), ParsedToken(text.createdAt),
                             ParsedToken(text.updatedAt), ParsedToken(text.unlockAt),
                             ParsedToken(text.expiresAt))]
  ELSE IF text.t = "jarr" THEN [throws |-> FALSE, value |-> [t |-> "arr", v |-> 0]]
  ELSE [throws |-> FALSE, value |-> ParsedToken(text)]

\* A buffer: the text it holds and its length in bytes; JSON text may be
\* padded with whitespace to any length.
Buf(text, n) == [t |-> "buf", text |-> text, length |-> n]
ByteLength(text) ==
  IF text.t = "jobj"
    THEN 2 + Cardinality({f \in {"id", "createdAt", "updatedAt", "unlockAt", "expiresAt"} :
                            text[f] # JAbsent})
  ELSE 1
BufferFrom(text) == Buf(text, ByteLength(text))
bufferToString(buf) == buf.text

---------------------------------------------------------------------------
(* lib/hyperdrive-adapter.js: the drive, saveMeta and listMetas *)

\* The drive is the sequence of its files in directory order; a path
\* prefix/<dir>/<name> is the pair of its last two components.
File(d, n, b) == [dir |-> d, name |-> n, buf |-> b]
At(drv, d, n) == {i \in 1..Len(drv) : drv[i].dir = d /\ drv[i].name = n}
Get(drv, d, n) == IF At(drv, d, n) = {} THEN NULL ELSE drv[CHOOSE i \in At(drv, d, n) : TRUE].buf
Put(drv, d, n, b) ==
  IF At(drv, d, n) = {} THEN Append(drv, File(d, n, b))
  ELSE [drv EXCEPT ![CHOOSE i \in At(drv, d, n) : TRUE].buf = b]
\* drive.readdir(prefix): the directory names, each once, in directory order.
RECURSIVE Readdir(_)
Readdir(drv) ==
  IF drv = <<>> THEN <<>>
  ELSE LET front == Readdir(SubSeq(drv, 1, Len(drv) - 1))
           d == drv[Len(drv)].dir
       IN  IF \E i \in 1..Len(front) : front[i] = d THEN front ELSE Append(front, d)

Call(fn, d, n) == [fn |-> fn, dir |-> d, name |-> n]

\* drive.exists(path) and the effect of a drive.del(path) that removes the file.
Exists(drv, d, n) == At(drv, d, n) # {}
Del(drv, d, n) == SelectSeq(drv, LAMBDA f : ~(f.dir = d /\ f.name = n))
\* A drive.del call of the first round or of the retry: a working drive
\* removes the file; a failing one rejects, or resolves having removed
\* nothing; a flaky one rejects in the first round and works in the retry.
DelRejects(be, round) == be.del = "rejects" \/ (be.del = "flaky" /\ round = "first")
DelRemoves(be, round) == be.del = "ok" \/ (be.del = "flaky" /\ round = "retry")
AfterDel(drv, d, n, be, round) == IF DelRemoves(be, round) THEN Del(drv, d, n) ELSE drv

\* filesToDelete.map(sanitizePathComponent).filter(name => name !== null)
RECURSIVE sanitizedFiles(_)
sanitizedFiles(files) ==
  IF files = <<>> THEN <<>>
  ELSE LET rest == sanitizedFiles(Tail(files))
       IN  IF sanitizePathComponent(Head(files)) = NULL THEN rest
           ELSE <<sanitizePathComponent(Head(files))>> \o rest

\* Promise.allSettled over a drive.del of every name: rejections are only warned about.
RECURSIVE delAll(_, _, _, _, _)
delAll(names, i, id, be, acc) ==
  IF i > Len(names) THEN acc
  ELSE delAll(names, i + 1, id, be,
         [acc EXCEPT !.drive = AfterDel(@, id, names[i], be, "first"),
                     !.calls = Append(@, Call("del", id, names[i])),
                     !.diag = IF DelRejects(be, "first")
                                THEN Append(@, "Failed to delete") ELSE @])

\* The verification loop: a file that still exists is deleted once more and
\* looked up again; what remains after that is only warned about.
RECURSIVE verifyAll(_, _, _, _, _)
verifyAll(names, i, id, be, acc) ==
  IF i > Len(names) THEN acc
  ELSE LET n == names[i]
           seen == [acc EXCEPT !.calls = Append(@, Call("exists", id, n))]
       IN  IF ~Exists(acc.drive, id, n) THEN verifyAll(names, i + 1, id, be, seen)
           ELSE IF DelRejects(be, "retry")
             THEN verifyAll(names, i + 1, id, be,
                    [seen EXCEPT !.calls = Append(@, Call("del", id, n)),
                                 !.diag = Append(@, "Retry deletion failed")])
           ELSE LET after == AfterDel(acc.drive, id, n, be, "retry")
                IN  verifyAll(names, i + 1, id, be,
                      [seen EXCEPT !.drive = after,
                                   !.calls = @ \o <<Call("del", id, n), Call("exists", id, n)>>,
                                   !.diag = IF Exists(after, id, n)
                                              THEN Append(@, "still exists after retry") ELSE @])

\* deleteFilesFromHyperdrive deleting only the first of the names.
deleteFilesMutFirstNameOnly(drv, filesToDelete, meta, be) ==
  IF ~validateMetaId(meta.id)
    THEN [drive |-> drv, calls |-> <<>>, diag |-> <<"Invalid meta.id">>, rejected |-> FALSE]
  ELSE IF Falsy(sanitizePathComponent(meta.id))
    THEN [drive |-> drv, calls |-> <<>>, diag |-> <<>>, rejected |-> FALSE]
  ELSE LET id == sanitizePathComponent(meta.id)
           names == IF sanitizedFiles(filesToDelete) = <<>> THEN <<>>
                    ELSE <<Head(sanitizedFiles(filesToDelete))>>
           first == delAll(names, 1, id, be,
                      [drive |-> drv, calls |-> <<>>, diag |-> <<>>, rejected |-> FALSE])
       IN  IF be.exists THEN verifyAll(names, 1, id, be, first) ELSE first

\* deleteFilesFromHyperdrive(drive, prefix, filesToDelete, meta) on a drive
\* that behaves as `be`: the drive left behind, the backend calls made, the
\* warnings, and whether the promise rejects.
deleteFilesFromHyperdrive(drv, filesToDelete, meta, be) ==
  IF ~validateMetaId(meta.id)
    THEN [drive |-> drv, calls |-> <<>>, diag |-> <<"Invalid meta.id">>, rejected |-> FALSE]
  ELSE IF Falsy(sanitizePathComponent(meta.id))
    THEN [drive |-> drv, calls |-> <<>>, diag |-> <<>>, rejected |-> FALSE]
  ELSE LET id == sanitizePathComponent(meta.id)
           names == sanitizedFiles(filesToDelete)
           first == delAll(names, 1, id, be,
                      [drive |-> drv, calls |-> <<>>, diag |-> <<>>, rejected |-> FALSE])
       IN  IF be.exists THEN verifyAll(names, 1, id, be, first) ELSE first

\* saveMetaToHyperdrive without the check of metaFile.
saveMetaMutNoMetaFileCheck(drv, metaFile, meta) ==
  IF meta.t \in {"null", "undef"} \/ ~validateMetaId(Field(meta, "id"))
    THEN [rejected |-> TRUE, calls |-> <<>>, drive |-> drv]
  ELSE [rejected |-> FALSE, calls |-> <<Call("put", meta.id, metaFile)>>,
        drive |-> Put(drv, meta.id, metaFile, BufferFrom(JSONstringify(meta)))]

\* saveMetaToHyperdrive(drive, prefix, metaFile, meta): whether the promise
\* rejects, the backend calls made and the drive afterwards.
saveMetaToHyperdrive(drv, metaFile, meta) ==
  IF meta.t \in {"null", "undef"} THEN [rejected |-> TRUE, calls |-> <<>>, drive |-> drv]
  ELSE IF ~validateMetaId(Field(meta, "id"))
    THEN [rejected |-> TRUE, calls |-> <<>>, drive |-> drv]
  ELSE LET id == sanitizePathComponent(meta.id)
           metaFileName == sanitizePathComponent(metaFile)
       IN  IF Falsy(id) THEN [rejected |-> TRUE, calls |-> <<>>, drive |-> drv]
           ELSE IF Falsy(metaFileName) THEN [rejected |-> TRUE, calls |-> <<>>, drive |-> drv]
           ELSE [rejected |-> FALSE, calls |-> <<Call("put", id, metaFileName)>>,
                 drive |-> Put(drv, id, metaFileName, BufferFrom(JSONstringify(meta)))]

\* The checks of a timestamp that must lie in [0, now + 100 years].
BoundedTimestampWarning(ts, nowv, name) ==
  IF ts = Undefined THEN "ok"
  ELSE IF ~TypeofNumber(ts) \/ ~IsFinite(ts) THEN "Invalid " \o name
  ELSE IF ts.v < 0 \/ ts.v > nowv.v + HundredYears THEN name \o " out of bounds"
  ELSE "ok"

\* The checks without the bounds of unlockAt.
readChecksMutNoUnlockBound(meta, nowv) ==
  IF Falsy(meta) \/ ~TypeofObject(meta) THEN "not an object"
  ELSE IF Falsy(Field(meta, "id")) \/ ~TypeofString(Field(meta, "id")) THEN "Invalid meta.id"
  ELSE IF ~validateMetaId(meta.id) THEN "Invalid meta.id format"
  ELSE IF meta.createdAt # Undefined /\ (~TypeofNumber(meta.createdAt) \/ ~IsFinite(meta.createdAt))
    THEN "Invalid createdAt"
  ELSE IF meta.updatedAt # Undefined /\ (~TypeofNumber(meta.updatedAt) \/ ~IsFinite(meta.updatedAt))
    THEN "Invalid updatedAt"
  ELSE IF BoundedTimestampWarning(meta.expiresAt, nowv, "expiresAt") # "ok"
    THEN BoundedTimestampWarning(meta.expiresAt, nowv, "expiresAt")
  ELSE IF meta.unlockAt # Undefined /\ (~TypeofNumber(meta.unlockAt) \/ ~IsFinite(meta.unlockAt))
    THEN "Invalid unlockAt"
  ELSE "ok"

\* The checks listMetasFromHyperdrive makes on a parsed value, in order: the
\* warning of the first that fails, or "ok".
readChecks(meta, nowv) ==
  IF Falsy(meta) \/ ~TypeofObject(meta) THEN "not an object"
  ELSE IF Falsy(Field(meta, "id")) \/ ~TypeofString(Field(meta, "id")) THEN "Invalid meta.id"
  ELSE IF ~validateMetaId(meta.id) THEN "Invalid meta.id format"
  ELSE IF meta.createdAt # Undefined /\ (~TypeofNumber(meta.createdAt) \/ ~IsFinite(meta.createdAt))
    THEN "Invalid createdAt"
  ELSE IF meta.updatedAt # Undefined /\ (~TypeofNumber(meta.updatedAt) \/ ~IsFinite(meta.updatedAt))
    THEN "Invalid updatedAt"
  ELSE IF BoundedTimestampWarning(meta.expiresAt, nowv, "expiresAt") # "ok"
    THEN BoundedTimestampWarning(meta.expiresAt, nowv, "expiresAt")
  ELSE BoundedTimestampWarning(meta.unlockAt, nowv, "unlockAt")

\* The loop body with the parse outside the try block.
readEntryMutNoTry(buf, nowv) ==
  IF buf.length > MAX_META_SIZE
    THEN [kept |-> FALSE, meta |-> NULL, warn |-> "too large", throws |-> FALSE]
  ELSE LET p == JSONparse(bufferToString(buf))
       IN  IF p.throws
             THEN [kept |-> FALSE, meta |-> NULL, warn |-> "ok", throws |-> TRUE]
           ELSE [kept |-> readChecks(p.value, nowv) = "ok", meta |-> p.value,
                 warn |-> readChecks(p.value, nowv), throws |-> FALSE]

\* The loop body of listMetasFromHyperdrive for a buffer that was found:
\* whether the record is pushed, the warning logged, whether the body throws.
readEntry(buf, nowv) ==
  IF buf.length > MAX_META_SIZE
    THEN [kept |-> FALSE, meta |-> NULL, warn |-> "too large", throws |-> FALSE]
  ELSE LET p == JSONparse(bufferToString(buf))
       IN  IF p.throws
             THEN [kept |-> FALSE, meta |-> NULL, warn |-> "Failed to parse", throws |-> FALSE]
           ELSE [kept |-> readChecks(p.value, nowv) = "ok", meta |-> p.value,
                 warn |-> readChecks(p.value, nowv), throws |-> FALSE]

\* The for-await loop from entry i of the directory on.
RECURSIVE listLoop(_, _, _, _, _, _)
listLoop(ids, i, drv, metaFile, nowv, acc) ==
  IF i > Len(ids) THEN acc
  ELSE IF Falsy(ids[i]) THEN listLoop(ids, i + 1, drv, metaFile, nowv, acc)
  ELSE LET buf == Get(drv, ids[i], metaFile)
           got == [acc EXCEPT !.calls = Append(@, Call("get", ids[i], metaFile))]
       IN  IF Falsy(buf) THEN listLoop(ids, i + 1, drv, metaFile, nowv, got)
           ELSE LET e == readEntry(buf, nowv)
                IN  IF e.throws THEN [got EXCEPT !.rejected = TRUE]
                    ELSE listLoop(ids, i + 1, drv, metaFile, nowv,
                           [got EXCEPT !.metas = IF e.kept THEN Append(@, e.meta) ELSE @,
                                       !.diag = IF e.warn = "ok" THEN @ ELSE Append(@, e.warn)])

\* listMetasFromHyperdrive(drive, prefix, metaFile) at wall-clock reading w:
\* a fresh clock is made and read once before the directory is walked.
listMetasFromHyperdrive(drv, metaFile, w) ==
  LET nowv == Num(now(w, w, w, DefaultMaxBackwardsMs \div TimeUnitMs,
                      DefaultMaxForwardMs \div TimeUnitMs).value)
  IN  listLoop(Readdir(drv), 1, drv, metaFile, nowv,
               [metas |-> <<>>, calls |-> <<>>, diag |-> <<>>, rejected |-> FALSE, now |-> nowv])

---------------------------------------------------------------------------
(* lib/auto-gc.js *)

MAX_CONSECUTIVE_ERRORS == 5

Handle(id) == [t |-> "timer", v |-> id]
FreshId(active) == CHOOSE i \in 1..(Cardinality(active) + 1) : i \notin active

\* The controller's closure state: [timer, active, errors].
SchedState == [timer |-> timer, active |-> activeTimers, errors |-> consecutiveErrors]

\* start() without `if (timer) return`.
startMutNoGuard(st) ==
  [timer |-> Handle(FreshId(st.active)),
   active |-> st.active \cup {FreshId(st.active)},
   errors |-> 0]

\* start() that registers the interval without keeping its handle.
startMutDropsHandle(st) ==
  IF ~Falsy(st.timer) THEN st
  ELSE [timer |-> NULL, active |-> st.active \cup {FreshId(st.active)}, errors |-> 0]

\* start() without `consecutiveErrors = 0`.
startMutKeepsCounter(st) ==
  IF ~Falsy(st.timer) THEN st
  ELSE [timer |-> Handle(FreshId(st.active)),
        active |-> st.active \cup {FreshId(st.active)},
        errors |-> st.errors]

\* start()
start(st) ==
  IF ~Falsy(st.timer) THEN st
  ELSE [timer |-> Handle(FreshId(st.active)),
        active |-> st.active \cup {FreshId(st.active)},
        errors |-> 0]

\* stop() without `timer = null`.
stopMutKeepsHandle(st) ==
  IF Falsy(st.timer) THEN st
  ELSE [st EXCEPT !.active = @ \ {st.timer.v}]

\* stop() without clearInterval(timer).
stopMutNoClear(st) ==
  IF Falsy(st.timer) THEN st
  ELSE [st EXCEPT !.timer = NULL]

\* stop()
stop(st) ==
  IF Falsy(st.timer) THEN st
  ELSE [st EXCEPT !.timer = NULL, !.active = @ \ {st.timer.v}]

\* A then-handler that leaves the counter alone.
onFulfilledMutNoReset(st) == [st |-> st, diag |-> <<>>]

\* .then(() => { consecutiveErrors = 0 })
onFulfilled(st) == [st |-> [st EXCEPT !.errors = 0], diag |-> <<>>]

\* .catch((err) => { ... })
onRejected(st, err) ==
  LET n == st.errors + 1
      counted == [st EXCEPT !.errors = n]
      warn == [level |-> "warn", n |-> n, err |-> err]
  IN  IF n >= MAX_CONSECUTIVE_ERRORS
        THEN [st |-> stop(counted),
              diag |-> <<warn, [level |-> "error", n |-> n, err |-> "none"]>>]
        ELSE [st |-> counted, diag |-> <<warn>>]

\* tick() without its .catch(...).
tickChainMutNoCatch(outcome, err, st) ==
  IF outcome = "fulfilled"
    THEN [st |-> onFulfilled(st).st, diag |-> onFulfilled(st).diag, unhandled |-> FALSE]
    ELSE [st |-> st, diag |-> <<>>, unhandled |-> TRUE]

\* runEphemeralGC(...).then(f).catch(g) for a run promise settled as
\* `outcome`: the state the reactions leave, what they print, and whether the
\* last promise of the chain is rejected with nobody handling it.
tickChain(outcome, err, st) ==
  IF outcome = "fulfilled"
    THEN [st |-> onFulfilled(st).st, diag |-> onFulfilled(st).diag, unhandled |-> FALSE]
    ELSE [st |-> onRejected(st, err).st, diag |-> onRejected(st, err).diag,
          unhandled |-> FALSE]

SetSched(st) ==
  /\ timer' = st.timer
  /\ activeTimers' = st.active
  /\ consecutiveErrors' = st.errors

\* start() that also calls tick() once before it returns.
StartMutImmediateRun ==
  /\ SetSched(start(SchedState))
  /\ lastOp' = IF Falsy(timer) THEN "start" ELSE "startNoop"
  /\ IF Falsy(timer)
       THEN /\ tickLog' = <<>>
            /\ failsSinceReset' = 0
            /\ runs' = [s \in 1..MaxRuns |->
                          IF runs[s] # NULL THEN [runs[s] EXCEPT !.tick = 0]
                          ELSE IF \A y \in FreeSlots : s <= y
                                 THEN runEphemeralGC(Num(0), 0) ELSE NULL]
       ELSE UNCHANGED <<tickLog, failsSinceReset, runs>>
  /\ diag' = <<>>
  /\ UNCHANGED <<unhandled, ctxVars, clockVars, stopCause, driveVars, libVars>>

\* The caller calls start().
Start ==
  /\ SetSched(start(SchedState))
  /\ lastOp' = IF Falsy(timer) THEN "start" ELSE "startNoop"
  /\ IF Falsy(timer)
       THEN /\ tickLog' = <<>>
            /\ failsSinceReset' = 0
            /\ runs' = [s \in 1..MaxRuns |->
                          IF runs[s] = NULL THEN NULL ELSE [runs[s] EXCEPT !.tick = 0]]
       ELSE UNCHANGED <<tickLog, failsSinceReset, runs>>
  /\ diag' = <<>>
  /\ UNCHANGED <<unhandled, ctxVars, clockVars, stopCause, driveVars, libVars>>

\* The caller calls stop().
Stop ==
  /\ SetSched(stop(SchedState))
  /\ lastOp' = IF Falsy(timer) THEN "stopNoop" ELSE "stop"
  /\ diag' = <<>>
  /\ stopCause' = IF Falsy(timer) THEN stopCause ELSE "caller"
  /\ UNCHANGED <<runs, unhandled, ctxVars, clockVars, tickLog, failsSinceReset,
                 driveVars, libVars>>

\* tick() that returns at once while an earlier run has not settled.
TickMutSkipsWhileBusy(t, nowv, logged) ==
  /\ t \in activeTimers
  /\ ~ReactionPending
  /\ FreeSlots # {}
  /\ InFlight = {}
  /\ logged => Len(tickLog) < MaxTicks
  /\ runs' = [runs EXCEPT ![1] =
                runEphemeralGC(nowv, IF logged THEN Len(tickLog) + 1 ELSE 0)]
  /\ tickLog' = IF logged THEN Append(tickLog, "pending") ELSE tickLog
  /\ lastOp' = "tick"
  /\ diag' = <<>>
  /\ UNCHANGED <<timer, activeTimers, consecutiveErrors, unhandled,
                 ctxVars, failsSinceReset, stopCause, driveVars, libVars>>

\* The interval t fires tick(): runEphemeralGC samples nowFn() and requests
\* the listing.  `logged` records the tick in tickLog.
Tick(t, nowv, logged) ==
  /\ t \in activeTimers
  /\ ~ReactionPending
  /\ FreeSlots # {}
  /\ logged => Len(tickLog) < MaxTicks
  /\ LET s == CHOOSE x \in FreeSlots : \A y \in FreeSlots : x <= y
     IN  runs' = [runs EXCEPT ![s] =
                    runEphemeralGC(nowv, IF logged THEN Len(tickLog) + 1 ELSE 0)]
  /\ tickLog' = IF logged THEN Append(tickLog, "pending") ELSE tickLog
  /\ lastOp' = "tick"
  /\ diag' = <<>>
  /\ UNCHANGED <<timer, activeTimers, consecutiveErrors, unhandled,
                 ctxVars, failsSinceReset, stopCause, driveVars, libVars>>

\* ctx.listMetas settles for run s; on success the loop runs to its first await.
ListSettle(s, ok) ==
  /\ s \in InFlight
  /\ runs[s].pc = "listing"
  /\ ~ReactionPending
  /\ IF ok
       THEN LET r == gcLoop(metas, 1, runs[s].now, 0, hasOnExpire)
                run == Advanced([runs[s] EXCEPT !.list = metas], r)
            IN  /\ runs' = [runs EXCEPT ![s] = run]
                /\ expiredLog' = IF r.pc = "expiring"
                                   THEN expiredLog \cup {metas[r.idx].id}
                                   ELSE expiredLog
       ELSE /\ runs' = [runs EXCEPT ![s].pc = "rejected", ![s].err = "listMetas"]
            /\ UNCHANGED expiredLog
  /\ lastOp' = IF ok THEN "list" ELSE "listFail"
  /\ diag' = <<>>
  /\ UNCHANGED <<timer, activeTimers, consecutiveErrors, unhandled,
                 metas, hasOnExpire, clockVars, tickLog, failsSinceReset, stopCause, driveVars, libVars>>

\* ctx.onExpire settles for run s; on success the loop goes on to its next await.
OnExpireSettle(s, ok) ==
  /\ s \in InFlight
  /\ runs[s].pc = "expiring"
  /\ ~ReactionPending
  /\ IF ok
       THEN LET r == gcLoop(runs[s].list, runs[s].idx + 1, runs[s].now,
                            runs[s].expired + 1, hasOnExpire)
            IN  /\ runs' = [runs EXCEPT ![s] = Advanced(runs[s], r)]
                /\ expiredLog' = IF r.pc = "expiring"
                                   THEN expiredLog \cup {runs[s].list[r.idx].id}
                                   ELSE expiredLog
       ELSE /\ runs' = [runs EXCEPT ![s].pc = "rejected", ![s].err = "onExpire"]
            /\ UNCHANGED expiredLog
  /\ lastOp' = IF ok THEN "expire" ELSE "expireFail"
  /\ diag' = <<>>
  /\ UNCHANGED <<timer, activeTimers, consecutiveErrors, unhandled,
                 metas, hasOnExpire, clockVars, tickLog, failsSinceReset, stopCause, driveVars, libVars>>

\* The promise reactions of tick() for the settled run s.
Settle(s) ==
  /\ s \in InFlight
  /\ runs[s].pc \in {"fulfilled", "rejected"}
  /\ LET c == tickChain(runs[s].pc, runs[s].err, SchedState)
     IN  /\ SetSched(c.st)
         /\ diag' = c.diag
         /\ unhandled' = (unhandled \/ c.unhandled)
  /\ runs' = [runs EXCEPT ![s] = NULL]
  /\ tickLog' = IF runs[s].tick = 0 THEN tickLog
                ELSE [tickLog EXCEPT ![runs[s].tick] =
                        IF runs[s].pc = "fulfilled" THEN "ok" ELSE "fail"]
  /\ failsSinceReset' = IF runs[s].pc = "fulfilled" THEN 0 ELSE failsSinceReset + 1
  /\ stopCause' = IF ~Falsy(timer) /\ Falsy(tickChain(runs[s].pc, runs[s].err, SchedState).st.timer)
                    THEN "self" ELSE stopCause
  /\ lastOp' = IF runs[s].pc = "fulfilled" THEN "settleOk" ELSE "settleFail"
  /\ UNCHANGED <<ctxVars, clockVars, driveVars, libVars>>

---------------------------------------------------------------------------
(* Specifications *)

\* No call of a Hyperdrive context has been made.
NoCall ==
  [op |-> "none", arg |-> NULL, now |-> NULL, rejected |-> FALSE,
   calls |-> <<>>, result |-> <<>>]
MetaJson == Str(<<"m", "e", "t", "a", ".", "j", "s", "o", "n">>)
\* The specifications without a Hyperdrive, and the default options.
\* No library function has been called directly.
NoLibCall == [fn |-> "none", arg |-> NULL, now |-> NULL, out |-> NULL]
\* A drive whose del removes the file and which has an exists method.
WorkingBackend == [del |-> "ok", exists |-> TRUE]
DriveIdle ==
  /\ drive = <<>>
  /\ hyperOpts = [metaFile |-> MetaJson, filesToDelete |-> <<>>]
  /\ hyperLast = NoCall
  /\ backend = WorkingBackend
  /\ libCall = NoLibCall

SchedIdle ==
  /\ timer = NULL
  /\ activeTimers = {}
  /\ consecutiveErrors = 0
  /\ runs = [s \in 1..MaxRuns |-> NULL]
  /\ diag = <<>>
  /\ unhandled = FALSE
  /\ expiredLog = {}
  /\ lastOp = "init"
  /\ tickLog = <<>>
  /\ failsSinceReset = 0
  /\ stopCause = "none"

InitClock ==
  /\ wall \in 0..MaxWall
  /\ \E maxB \in 0..MaxOpt, maxF \in 0..MaxOpt : createMonotonicNow(wall, maxB, maxF)
  /\ SchedIdle
  /\ DriveIdle
  /\ metas = <<>>
  /\ hasOnExpire = FALSE

NextClock ==
  \/ NowCall /\ UNCHANGED <<schedVars, ctxVars, ghostVars, driveVars, libVars>>
  \/ WallJump /\ UNCHANGED <<schedVars, ctxVars, ghostVars, driveVars, libVars>>

SpecClock == InitClock /\ [][NextClock]_vars

\* createEphemeralAutoGC(ctx, {nowFn}) with a caller-supplied listing, an
\* optional onExpire and a caller-supplied clock function.
NowValues == {Num(n) : n \in 0..MaxTime} \cup {NaN}
Listings ==
  { <<>>,
    <<NULL, Meta("a", Undefined)>>,
    <<Meta("a", Undefined), Meta("b", Num(1))>>,
    <<Meta("b", Num(1)), Meta("c", Num(1))>> }

Init ==
  /\ wall = 0
  /\ createMonotonicNow(0, DefaultMaxBackwardsMs \div TimeUnitMs, DefaultMaxForwardMs \div TimeUnitMs)
  /\ SchedIdle
  /\ DriveIdle
  /\ metas \in Listings
  /\ hasOnExpire \in BOOLEAN

Next ==
  \/ Start
  \/ Stop
  \/ \E t \in activeTimers, n \in NowValues : Tick(t, n, FALSE) /\ UNCHANGED clockVars
  \/ \E s \in 1..MaxRuns, ok \in BOOLEAN : ListSettle(s, ok)
  \/ \E s \in 1..MaxRuns, ok \in BOOLEAN : OnExpireSettle(s, ok)
  \/ \E s \in 1..MaxRuns : Settle(s)

Spec == Init /\ [][Next]_vars

\* The same scheduler with every tick recorded in tickLog, over one listing
\* with one expired record whose onExpire the run awaits; only listMetas fails.
InitTicks ==
  /\ wall = 0
  /\ createMonotonicNow(0, DefaultMaxBackwardsMs \div TimeUnitMs, DefaultMaxForwardMs \div TimeUnitMs)
  /\ SchedIdle
  /\ DriveIdle
  /\ metas = <<Meta("b", Num(1))>>
  /\ hasOnExpire = TRUE

NextTicks ==
  \/ Start
  \/ Stop
  \/ \E t \in activeTimers : Tick(t, Num(1), TRUE) /\ UNCHANGED clockVars
  \/ \E s \in 1..MaxRuns, ok \in BOOLEAN : ListSettle(s, ok)
  \/ \E s \in 1..MaxRuns : OnExpireSettle(s, TRUE)
  \/ \E s \in 1..MaxRuns : Settle(s)

SpecTicks == InitTicks /\ [][NextTicks]_vars

\* createHyperdriveEphemeralGC: the scheduler's clock is one
\* createMonotonicNow() with the default tolerances, made when the controller
\* is; the drive holds valid records, every backend call succeeds, and real
\* time only moves forward.
WallAdvance ==
  /\ wall < MaxWallSteps
  /\ wall' = wall + 1
  /\ UNCHANGED <<last, startTime, maxBackwardsMs, maxForwardMs, ret, hasRet,
                 schedVars, ctxVars, ghostVars, driveVars, libVars>>

TickMonotonic(t) ==
  /\ Tick(t, Num(now(wall, last, startTime, maxBackwardsMs, maxForwardMs).value), FALSE)
  /\ NowCall

StoredIds == {"a", "b"}
StoredLists ==
  {<<Meta("a", Num(e))>> : e \in 1..MaxWallSteps}
    \cup {<<Meta("a", Num(e)), Meta("b", Num(f))>> : e \in 1..MaxWallSteps, f \in 1..MaxWallSteps}

InitHyper ==
  /\ wall = 0
  /\ createMonotonicNow(0, DefaultMaxBackwardsMs \div TimeUnitMs, DefaultMaxForwardMs \div TimeUnitMs)
  /\ SchedIdle
  /\ DriveIdle
  /\ metas \in StoredLists
  /\ hasOnExpire = TRUE

TickHyper == \E t \in activeTimers : TickMonotonic(t)
ListedHyper == \E s \in 1..MaxRuns : ListSettle(s, TRUE)
ExpiredHyper == \E s \in 1..MaxRuns : OnExpireSettle(s, TRUE)
SettledHyper == \E s \in 1..MaxRuns : Settle(s)

NextHyper ==
  \/ Start
  \/ Stop
  \/ WallAdvance
  \/ TickHyper
  \/ ListedHyper
  \/ ExpiredHyper
  \/ SettledHyper

\* An active interval keeps firing, and pending backend calls and promise
\* reactions complete.
SpecHyper ==
  /\ InitHyper
  /\ [][NextHyper]_vars
  /\ WF_vars(TickHyper)
  /\ WF_vars(ListedHyper)
  /\ WF_vars(ExpiredHyper)
  /\ WF_vars(SettledHyper)

\* runEphemeralGC(ctx) called directly (runOnce), one call at a time: the
\* listing holds absent entries and records that never expire or expire at 1
\* or 3 units; without options.nowFn the run makes a fresh
\* createMonotonicNow() and reads it at once, with options.nowFn the caller's
\* function may return NaN; real time moves forward while the run awaits.
SeqsUpTo(S, n) == UNION {[1..k -> S] : k \in 0..n}
GCEntries ==
  {NULL, Undefined, Meta("a", Undefined), Meta("b", Num(1)), Meta("c", Num(3))}

FreshClockReading(w) ==
  Num(now(w, w, w, DefaultMaxBackwardsMs \div TimeUnitMs,
          DefaultMaxForwardMs \div TimeUnitMs).value)

RunOnce(nowv) ==
  /\ runs[1] = NULL
  /\ runs' = [runs EXCEPT ![1] = runEphemeralGC(nowv, 0)]
  /\ lastOp' = "run"
  /\ diag' = <<>>
  /\ UNCHANGED <<timer, activeTimers, consecutiveErrors, unhandled,
                 ctxVars, clockVars, tickLog, failsSinceReset, stopCause, driveVars, libVars>>

\* The caller's await of the run's promise: the result or the error is taken.
RunReturn ==
  /\ runs[1] # NULL
  /\ runs[1].pc \in {"fulfilled", "rejected"}
  /\ runs' = [runs EXCEPT ![1] = NULL]
  /\ lastOp' = IF runs[1].pc = "fulfilled" THEN "return" ELSE "throw"
  /\ diag' = <<>>
  /\ UNCHANGED <<timer, activeTimers, consecutiveErrors, unhandled,
                 ctxVars, clockVars, tickLog, failsSinceReset, stopCause, driveVars, libVars>>

InitGC ==
  /\ wall = 0
  /\ createMonotonicNow(0, DefaultMaxBackwardsMs \div TimeUnitMs, DefaultMaxForwardMs \div TimeUnitMs)
  /\ SchedIdle
  /\ DriveIdle
  /\ metas \in SeqsUpTo(GCEntries, MaxMetas)
  /\ hasOnExpire \in BOOLEAN

NextGC ==
  \/ \E n \in {FreshClockReading(wall), NaN} : RunOnce(n)
  \/ WallAdvance
  \/ \E ok \in BOOLEAN : ListSettle(1, ok)
  \/ \E ok \in BOOLEAN : OnExpireSettle(1, ok)
  \/ RunReturn

SpecGC == InitGC /\ [][NextGC]_vars

\* One whole run of runEphemeralGC over each way ctx.listMetas can answer,
\* and beside it the run over the same entries listed the other way (a
\* fulfilled promise for an async sequence and the reverse).  libCall.arg is
\* the listMetas, libCall.now the clock reading, libCall.out the two settled
\* runs, libCall.fails the ids of the records onExpire rejects for.
ListFns(items) ==
  {ListFn(k, items, NULL) :
     k \in {"throws", "promise", "rejects", "asyncIterable", "array", "undefined"}}
    \cup {ListFn("asyncIterable", items, Num(k)) : k \in 0..Len(items)}
OtherKind(fn) ==
  [fn EXCEPT !.kind = IF @ = "promise" THEN "asyncIterable" ELSE "promise",
             !.failAfter = NULL]

InitList ==
  /\ wall = 0
  /\ createMonotonicNow(0, DefaultMaxBackwardsMs \div TimeUnitMs, DefaultMaxForwardMs \div TimeUnitMs)
  /\ SchedIdle
  /\ metas \in SeqsUpTo(GCEntries, MaxMetas)
  /\ hasOnExpire \in BOOLEAN
  /\ drive = <<>>
  /\ hyperOpts = [metaFile |-> MetaJson, filesToDelete |-> <<>>]
  /\ hyperLast = NoCall
  /\ backend = WorkingBackend
  /\ \E fn \in ListFns(metas), n \in {Num(2), Num(3), NaN}, f \in {{}, {"b"}} :
       libCall = [fn |-> "none", arg |-> fn, now |-> n, fails |-> f, out |-> NULL]

CallRunEphemeralGC ==
  /\ libCall.fn = "none"
  /\ libCall' = [libCall EXCEPT
                   !.fn = "runEphemeralGC",
                   !.out = [run |-> gcRun(libCall.arg, libCall.now, hasOnExpire, libCall.fails),
                            other |-> gcRun(OtherKind(libCall.arg), libCall.now,
                                            hasOnExpire, libCall.fails)]]
  /\ expiredLog' = {libCall.arg.items[i].id :
                      i \in {gcRun(libCall.arg, libCall.now, hasOnExpire, libCall.fails).invoked[j] :
                               j \in 1..Len(gcRun(libCall.arg, libCall.now, hasOnExpire,
                                                  libCall.fails).invoked)}}
  /\ lastOp' = "run"
  /\ UNCHANGED <<clockVars, schedVars, metas, hasOnExpire, tickLog, failsSinceReset,
                 stopCause, driveVars>>

NextList == CallRunEphemeralGC

SpecList == InitList /\ [][NextList]_vars

\* createHyperdriveEphemeralContext(drive, {prefix, metaFile}): saveMeta and
\* listMetas are called in any order on a drive that other writers (peers,
\* earlier versions) have filled with arbitrary files; every backend call
\* succeeds and real time moves forward between the calls.
IdA == Str(<<"a">>)
IdB == Str(<<"b", "_", "9">>)
IdLongest == Padded(<<"A", "-">>, MaxComponentLength - 2)
\* A directory name that readdir yields and validateMetaId refuses.
IdSpaced == Str(<<"a", " ", "b">>)
BadIds ==
  {Str(<<>>), Padded(<<"a">>, MaxComponentLength), Str(<<".", ".", "/", "e">>),
   Str(<<"a", " ", "b">>), Num(1), Undefined}
\* A time beyond now + 100 years for every now of the specification.
TooFar == HundredYears + MaxDriveTime + 2
GoodMeta(i) == FullMeta(i, Num(0), Num(0), Undefined, Num(2))
MetaSamples ==
  {NULL, GoodMeta(IdA), GoodMeta(IdLongest)}
    \cup {GoodMeta(i) : i \in BadIds}
    \cup {[GoodMeta(IdA) EXCEPT !.createdAt = ts] : ts \in {NaN, Num(0 - 1)}}
    \cup {[GoodMeta(IdA) EXCEPT !.updatedAt = ts] : ts \in {Infinity, Str(<<"9">>)}}
    \cup {[GoodMeta(IdA) EXCEPT !.unlockAt = ts] : ts \in {Num(0 - 1), Num(TooFar)}}
    \cup {[GoodMeta(IdA) EXCEPT !.expiresAt = ts] : ts \in {NaN, Infinity, Num(TooFar)}}
MetaFileSamples == {MetaJson, Str(<<".", ".">>), Str(<<"m", "/", "j">>), Num(5)}

\* What a meta file written by anyone may hold.
GoodText(i) == JObj(JStr(i), JNum(0), JNum(0), JAbsent, JNum(2))
ForeignTexts ==
  {Garbage, JNull, JArr, JNum(7), JStr(IdB), GoodText(IdB),
   JObj(JAbsent, JNum(0), JNum(0), JAbsent, JAbsent),
   JObj(JNum(1), JNum(0), JNum(0), JAbsent, JAbsent),
   GoodText(Str(<<>>)), GoodText(Str(<<".", ".", "/", "e">>)),
   GoodText(Padded(<<"a">>, MaxComponentLength)), GoodText(IdLongest),
   JObj(JStr(IdB), JHuge, JNum(0), JAbsent, JAbsent),
   JObj(JStr(IdB), JNull, JNum(0), JAbsent, JAbsent),
   JObj(JStr(IdB), JNum(0 - 1), JNum(TooFar), JAbsent, JAbsent),
   JObj(JStr(IdB), JNum(0), JHuge, JAbsent, JAbsent),
   JObj(JStr(IdB), JNum(0), JStr(Str(<<"9">>)), JAbsent, JAbsent),
   JObj(JStr(IdB), JAbsent, JAbsent, JNum(0), JNum(HundredYears)),
   JObj(JStr(IdB), JAbsent, JAbsent, JNum(HundredYears + 1), JAbsent),
   JObj(JStr(IdB), JAbsent, JAbsent, JAbsent, JNum(HundredYears + 1)),
   JObj(JStr(IdB), JAbsent, JAbsent, JNum(0 - 1), JAbsent),
   JObj(JStr(IdB), JAbsent, JAbsent, JHuge, JAbsent),
   JObj(JStr(IdB), JAbsent, JAbsent, JAbsent, JNum(0 - 1)),
   JObj(JStr(IdB), JAbsent, JAbsent, JAbsent, JNull)}
ForeignBufs ==
  {BufferFrom(x) : x \in ForeignTexts}
    \cup {Buf(GoodText(IdB), MAX_META_SIZE), Buf(GoodText(IdB), MAX_META_SIZE + 1)}
OwnBufs == {BufferFrom(GoodText(IdA)), BufferFrom(Garbage)}
InitialDrives ==
  {<<>>}
    \cup {<<File(IdB, MetaJson, b)>> : b \in ForeignBufs}
    \cup {<<File(IdA, MetaJson, a), File(IdB, MetaJson, b)>> : a \in OwnBufs, b \in ForeignBufs}
    \cup {<<File(IdB, MetaJson, b), File(IdA, MetaJson, a)>> : a \in OwnBufs, b \in ForeignBufs}
    \cup {<<File(IdSpaced, MetaJson, BufferFrom(GoodText(i)))>> : i \in {IdSpaced, IdB}}

SaveMeta(meta) ==
  /\ LET r == saveMetaToHyperdrive(drive, hyperOpts.metaFile, meta)
     IN  /\ drive' = r.drive
         /\ hyperLast' = [op |-> "saveMeta", arg |-> meta, now |-> NULL,
                          rejected |-> r.rejected, calls |-> r.calls, result |-> <<>>]
  /\ diag' = <<>>
  /\ lastOp' = "saveMeta"
  /\ UNCHANGED <<timer, activeTimers, consecutiveErrors, runs, unhandled,
                 ctxVars, clockVars, tickLog, failsSinceReset, stopCause, hyperOpts, backend, libVars>>

ListMetas ==
  /\ LET r == listMetasFromHyperdrive(drive, hyperOpts.metaFile, wall)
     IN  /\ hyperLast' = [op |-> "listMetas", arg |-> NULL, now |-> r.now,
                          rejected |-> r.rejected, calls |-> r.calls, result |-> r.metas]
         /\ diag' = r.diag
  /\ lastOp' = "listMetas"
  /\ UNCHANGED <<timer, activeTimers, consecutiveErrors, runs, unhandled,
                 ctxVars, clockVars, tickLog, failsSinceReset, stopCause, drive, hyperOpts, backend, libVars>>

InitDrive ==
  /\ wall = 0
  /\ createMonotonicNow(0, DefaultMaxBackwardsMs \div TimeUnitMs, DefaultMaxForwardMs \div TimeUnitMs)
  /\ SchedIdle
  /\ metas = <<>>
  /\ hasOnExpire = FALSE
  /\ drive \in InitialDrives
  /\ hyperOpts \in {[metaFile |-> m, filesToDelete |-> <<>>] : m \in MetaFileSamples}
  /\ hyperLast = NoCall
  /\ backend = WorkingBackend
  /\ libCall = NoLibCall

DriveTimePasses ==
  /\ wall < MaxDriveTime
  /\ wall' = wall + 1
  /\ UNCHANGED <<last, startTime, maxBackwardsMs, maxForwardMs, ret, hasRet,
                 schedVars, ctxVars, ghostVars, driveVars, libVars>>

NextDrive ==
  \/ \E meta \in MetaSamples : SaveMeta(meta)
  \/ ListMetas
  \/ DriveTimePasses

SpecDrive == InitDrive /\ [][NextDrive]_vars

\* createHyperdriveEphemeralGC(drive, options): records are saved, their
\* files are written next to them, time passes and runOnce() collects, on a
\* drive whose del works, fails, or succeeds only when retried.
Payload == Str(<<"p", "a", "y", "l", "o", "a", "d", ".", "t", "x", "t">>)
Nested == Str(<<"m", "/", "j">>)
PayloadBuf == Buf(Garbage, 1)
FilesSamples == {<<MetaJson, Payload>>, <<Payload>>, <<>>, <<MetaJson, Nested>>}
Backends ==
  {[del |-> d, exists |-> TRUE] : d \in {"ok", "rejects", "noop", "flaky"}}
    \cup {[del |-> d, exists |-> FALSE] : d \in {"ok", "flaky"}}
\* The files an application keeps next to a record.
PayloadPaths == {<<IdA, Payload>>, <<IdA, Nested>>, <<IdB, Payload>>}
AdapterMetas ==
  {FullMeta(IdA, Num(0), Num(0), Undefined, Num(0)),
   FullMeta(IdA, Num(0), Num(0), Undefined, Num(2)),
   FullMeta(IdB, Num(0), Num(0), Undefined, Num(0))}

\* The loop of runEphemeralGC with onExpire = deleteFilesFromHyperdrive,
\* from entry i on: each onExpire is awaited before the loop goes on.
RECURSIVE adapterLoop(_, _, _, _, _, _)
adapterLoop(list, i, nowv, files, be, acc) ==
  LET r == gcLoop(list, i, nowv, acc.expired, TRUE)
  IN  IF r.pc = "fulfilled" THEN acc
      ELSE IF r.pc = "rejected" THEN [acc EXCEPT !.rejected = TRUE]
      ELSE LET d == deleteFilesFromHyperdrive(acc.drive, files, list[r.idx], be)
               called == [acc EXCEPT !.drive = d.drive,
                                     !.calls = @ \o d.calls,
                                     !.diag = @ \o d.diag,
                                     !.invoked = Append(@, list[r.idx])]
           IN  IF d.rejected THEN [called EXCEPT !.rejected = TRUE]
               ELSE adapterLoop(list, r.idx + 1, nowv, files, be,
                                [called EXCEPT !.expired = @ + 1])

\* runOnce(): runEphemeralGC(ctx, { nowFn }) on the Hyperdrive context, with
\* nowFn() = nowv read at wall-clock reading w.
runOnce(drv, opts, be, nowv, w) ==
  LET l == listMetasFromHyperdrive(drv, opts.metaFile, w)
      listed == [drive |-> drv, calls |-> l.calls, diag |-> l.diag,
                 rejected |-> l.rejected, invoked |-> <<>>, expired |-> 0]
  IN  IF l.rejected THEN listed
      ELSE adapterLoop(l.metas, 1, nowv, opts.filesToDelete, be, listed)

AdapterRunOnce ==
  /\ LET n == now(wall, last, startTime, maxBackwardsMs, maxForwardMs)
         r == runOnce(drive, hyperOpts, backend, Num(n.value), wall)
     IN  /\ last' = n.last
         /\ ret' = n.value
         /\ hasRet' = TRUE
         /\ drive' = r.drive
         /\ hyperLast' = [op |-> "runOnce", arg |-> r.invoked, now |-> Num(n.value),
                          rejected |-> r.rejected, calls |-> r.calls,
                          result |-> [expired |-> r.expired]]
         /\ diag' = r.diag
  /\ lastOp' = "runOnce"
  /\ UNCHANGED <<wall, startTime, maxBackwardsMs, maxForwardMs,
                 timer, activeTimers, consecutiveErrors, runs, unhandled,
                 ctxVars, tickLog, failsSinceReset, stopCause, hyperOpts, backend, libVars>>

\* The application writes a file of a record with drive.put.
PutFile(d, n) ==
  /\ drive' = Put(drive, d, n, PayloadBuf)
  /\ hyperLast' = [NoCall EXCEPT !.op = "put"]
  /\ diag' = <<>>
  /\ lastOp' = "put"
  /\ UNCHANGED <<timer, activeTimers, consecutiveErrors, runs, unhandled,
                 ctxVars, clockVars, tickLog, failsSinceReset, stopCause, hyperOpts, backend, libVars>>

InitAdapter ==
  /\ wall = 0
  /\ createMonotonicNow(0, DefaultMaxBackwardsMs \div TimeUnitMs, DefaultMaxForwardMs \div TimeUnitMs)
  /\ SchedIdle
  /\ metas = <<>>
  /\ hasOnExpire = TRUE
  /\ drive = <<>>
  /\ hyperOpts \in {[metaFile |-> MetaJson, filesToDelete |-> f] : f \in FilesSamples}
  /\ hyperLast = NoCall
  /\ backend \in Backends
  /\ libCall = NoLibCall

NextAdapter ==
  \/ \E meta \in AdapterMetas : Len(drive) < MaxAdapterFiles /\ SaveMeta(meta)
  \/ \E f \in PayloadPaths : Len(drive) < MaxAdapterFiles /\ PutFile(f[1], f[2])
  \/ AdapterRunOnce
  \/ DriveTimePasses

SpecAdapter == InitAdapter /\ [][NextAdapter]_vars

\* validateMetaId and sanitizePathComponent applied to one argument: any
\* string of up to MaxStrLen characters of the alphabet, alone or followed
\* by letters up to 255 or 256 characters in all, or a value of another type.
Bool(b) == [t |-> "bool", v |-> b]
Alphabet == {"a", "Z", "0", "_", "-", ".", "/", "\\", " ", "\n"}
\* The letters that follow the characters s: none, or up to 255 or 256 characters in all.
PadsFor(s) == {0, MaxComponentLength - Len(s), MaxComponentLength + 1 - Len(s)}
OtherInputs == {NULL, Undefined, NaN, Num(7)}

CallValidateMetaId ==
  /\ libCall.fn = "none"
  /\ libCall' = [libCall EXCEPT !.fn = "validateMetaId",
                                !.out = Bool(validateMetaId(libCall.arg))]
  /\ UNCHANGED <<clockVars, schedVars, ctxVars, ghostVars, driveVars>>

CallSanitizePathComponent ==
  /\ libCall.fn = "none"
  /\ libCall' = [libCall EXCEPT !.fn = "sanitizePathComponent",
                                !.out = sanitizePathComponent(libCall.arg)]
  /\ UNCHANGED <<clockVars, schedVars, ctxVars, ghostVars, driveVars>>

\* Nothing but the library function is in use.
LibOnly ==
  /\ wall = 0
  /\ createMonotonicNow(0, DefaultMaxBackwardsMs \div TimeUnitMs, DefaultMaxForwardMs \div TimeUnitMs)
  /\ SchedIdle
  /\ metas = <<>>
  /\ hasOnExpire = FALSE
  /\ drive = <<>>
  /\ hyperOpts = [metaFile |-> MetaJson, filesToDelete |-> <<>>]
  /\ hyperLast = NoCall
  /\ backend = WorkingBackend

InitValidate ==
  /\ LibOnly
  /\ \/ \E s \in SeqsUpTo(Alphabet, MaxStrLen) : \E p \in PadsFor(s) :
          libCall = [NoLibCall EXCEPT !.arg = Padded(s, p)]
     \/ \E x \in OtherInputs : libCall = [NoLibCall EXCEPT !.arg = x]

NextValidate ==
  \/ CallValidateMetaId
  \/ CallSanitizePathComponent

SpecValidate == InitValidate /\ [][NextValidate]_vars

\* isExpired, isUnlocked and isVisible applied to a record and a time. The
\* record is absent or carries any pair of unlockAt and expiresAt; each is
\* missing, of another type, not finite, negative, on either side of the
\* ceiling, or around the times 0..2.
TimestampInputs ==
  {Undefined, NULL, Str(<<"1">>), NaN, Infinity, Num(0 - 1), Num(0), Num(1), Num(2),
   Num(MAX_TIMESTAMP), Num(MAX_TIMESTAMP + 1)}
RecordInputs ==
  {NULL, Undefined}
    \cup {FullMeta(Str(<<"a">>), Num(0), Num(0), ul, e) :
             ul \in TimestampInputs, e \in TimestampInputs}
NowInputs ==
  {Num(0 - 1), Num(0), Num(1), Num(2), Num(MAX_TIMESTAMP), Num(MAX_TIMESTAMP + 1),
   Undefined, NULL, Str(<<"1">>), NaN, Infinity}

\* What a call left behind: the boolean returned, or the error thrown.
Thrown == [t |-> "throw", v |-> FALSE]
Outcome(r) == IF r.throws THEN Thrown ELSE Bool(r.value)

CallIsExpired ==
  /\ libCall.fn = "none"
  /\ libCall' = [libCall EXCEPT !.fn = "isExpired",
                                !.out = Outcome(isExpired(libCall.arg, libCall.now))]
  /\ UNCHANGED <<clockVars, schedVars, ctxVars, ghostVars, driveVars>>

CallIsUnlocked ==
  /\ libCall.fn = "none"
  /\ libCall' = [libCall EXCEPT !.fn = "isUnlocked",
                                !.out = Outcome(isUnlocked(libCall.arg, libCall.now))]
  /\ UNCHANGED <<clockVars, schedVars, ctxVars, ghostVars, driveVars>>

CallIsVisible ==
  /\ libCall.fn = "none"
  /\ libCall' = [libCall EXCEPT !.fn = "isVisible",
                                !.out = Outcome(isVisible(libCall.arg, libCall.now))]
  /\ UNCHANGED <<clockVars, schedVars, ctxVars, ghostVars, driveVars>>

InitMeta ==
  /\ LibOnly
  /\ libCall \in {[NoLibCall EXCEPT !.arg = m, !.now = n] :
                    m \in RecordInputs, n \in NowInputs}

NextMeta ==
  \/ CallIsExpired
  \/ CallIsUnlocked
  \/ CallIsVisible

SpecMeta == InitMeta /\ [][NextMeta]_vars

\* Two clock instances made at the same wall-clock reading with the same
\* maxForwardMs and any two values of maxBackwardsMs, negative ones included
\* (the options are not validated); both are called at every reading.  The
\* second instance is held in libCall: arg is its maxBackwardsMs, now its
\* `last`, out the value its latest call returned.
MaxNegOpt == 2
Tolerances == (0 - MaxNegOpt)..MaxOpt

InitTwin ==
  /\ wall \in 0..MaxWall
  /\ \E maxB \in Tolerances, maxF \in 0..MaxOpt : createMonotonicNow(wall, maxB, maxF)
  /\ \E maxB \in Tolerances :
       libCall = [fn |-> "createMonotonicNow", arg |-> maxB, now |-> wall, out |-> 0]
  /\ SchedIdle
  /\ metas = <<>>
  /\ hasOnExpire = FALSE
  /\ drive = <<>>
  /\ hyperOpts = [metaFile |-> MetaJson, filesToDelete |-> <<>>]
  /\ hyperLast = NoCall
  /\ backend = WorkingBackend

\* Both clock functions are called at the same wall-clock reading.
TwinNowCall ==
  /\ NowCall
  /\ LET r == now(wall, libCall.now, startTime, libCall.arg, maxForwardMs)
     IN  libCall' = [libCall EXCEPT !.fn = "now", !.now = r.last, !.out = r.value]
  /\ UNCHANGED <<schedVars, ctxVars, ghostVars, driveVars>>

NextTwin ==
  \/ TwinNowCall
  \/ WallJump /\ UNCHANGED <<schedVars, ctxVars, ghostVars, driveVars, libVars>>

SpecTwin == InitTwin /\ [][NextTwin]_vars

IsRunning == ~Falsy(timer)

---------------------------------------------------------------------------
(* C1: successive values returned by one clock instance never decrease,     *)
(* whatever the wall clock does between construction and the calls.         *)
C1_Monotonic == [][(hasRet /\ hasRet') => ret' >= ret]_vars

\* A call made after the wall clock was set back returned the held value.
C1_Witness == hasRet /\ wall < ret /\ ret > startTime

\* The stored record `id` has its expiresAt at or before the real wall-clock time.
Due(id) == \E i \in 1..Len(metas) : metas[i].id = id /\ metas[i].expiresAt.v <= wall

(* C2: with the Hyperdrive scheduler Running and a backend that always      *)
(* succeeds, every stored record whose expiresAt is at or before the real   *)
(* wall-clock time is eventually passed to onExpire (or the scheduler is    *)
(* stopped), however long the clock instance has existed.                   *)
C2_EventuallyExpired ==
  \A id \in StoredIds : (IsRunning /\ Due(id)) ~> (id \in expiredLog \/ ~IsRunning)

\* Ticks k..k+4 of the current Running period have all settled as failures.
FiveFailed(log, k) == k + 4 <= Len(log) /\ \A j \in k..(k + 4) : log[j] = "fail"

(* C3: when listMetas fails on five consecutive ticks of one Running period *)
(* the scheduler is Stopped once the last of the five failures has settled. *)
C3_SelfStop ==
  [][(\E k \in 1..MaxTicks : FiveFailed(tickLog', k) /\ ~FiveFailed(tickLog, k))
       => ~IsRunning']_vars

(* C4: at most one GC run started by the scheduler is in flight.            *)
C4_AtMostOneRun == Cardinality(InFlight) <= 1

\* This step runs the promise reactions of a run settled as `outcome`.
SettlesAs(outcome) ==
  \E s \in 1..MaxRuns : runs[s] # NULL /\ runs[s].pc = outcome /\ runs'[s] = NULL

(* C5: a settled tick success zeroes the failure counter, and the scheduler *)
(* stops on its own only when at least 5 failures have settled since the    *)
(* last settled success and the last effective start().                     *)
C5_ResetAndThreshold ==
  [][/\ SettlesAs("fulfilled") => consecutiveErrors' = 0
     /\ (SettlesAs("rejected") /\ IsRunning /\ ~IsRunning')
          => failsSinceReset' >= MAX_CONSECUTIVE_ERRORS]_vars

\* The fifth failure in a row has just stopped the scheduler.
C5_Witness ==
  /\ lastOp = "settleFail" /\ Len(diag) = 2 /\ ~IsRunning
  /\ failsSinceReset = MAX_CONSECUTIVE_ERRORS

(* C6: start() while Running changes nothing (one timer, counter kept);     *)
(* start() while Stopped registers exactly one timer and zeroes the counter.*)
C6_StartIdempotent ==
  [][/\ lastOp' = "startNoop"
          => /\ IsRunning /\ IsRunning'
             /\ UNCHANGED <<timer, activeTimers, consecutiveErrors>>
             /\ Cardinality(activeTimers') = 1
     /\ (lastOp' = "start" /\ lastOp # "start")
          => /\ ~IsRunning /\ IsRunning'
             /\ activeTimers' = {timer'.v}
             /\ consecutiveErrors' = 0]_vars

\* start() was called on a Running scheduler whose counter was not zero.
C6_Witness ==
  lastOp = "startNoop" /\ consecutiveErrors > 0 /\ Cardinality(activeTimers) = 1

(* C7: stop() while Stopped changes no state; stop() while Running cancels  *)
(* the timer and makes isRunning() false.                                   *)
C7_StopIdempotent ==
  [][/\ lastOp' = "stopNoop"
          => /\ ~IsRunning
             /\ diag' = <<>>
             /\ UNCHANGED <<timer, activeTimers, consecutiveErrors, runs, unhandled,
                            ctxVars, clockVars, tickLog, failsSinceReset>>
     /\ (lastOp' = "stop" /\ lastOp # "stop")
          => /\ IsRunning /\ ~IsRunning'
             /\ timer.v \notin activeTimers'
             /\ activeTimers' = {}
             /\ UNCHANGED <<consecutiveErrors, runs, unhandled, ctxVars>>]_vars

\* stop() was called after the scheduler had stopped itself.
C7_Witness == lastOp = "stopNoop" /\ consecutiveErrors >= MAX_CONSECUTIVE_ERRORS

(* C8: isRunning() is true exactly when the scheduler's interval is active: *)
(* false initially, true after start(), false after stop() and after an     *)
(* automatic stop.                                                          *)
C8_IsRunningIffTimer ==
  /\ IsRunning <=> activeTimers # {}
  /\ IsRunning => activeTimers = {timer.v}
  /\ lastOp = "init" => ~IsRunning
  /\ lastOp \in {"start", "startNoop"} => IsRunning
  /\ lastOp \in {"stop", "stopNoop"} => ~IsRunning
  /\ (lastOp = "settleFail" /\ consecutiveErrors >= MAX_CONSECUTIVE_ERRORS) => ~IsRunning

\* The scheduler stopped itself and no interval is left.
C8_Witness ==
  /\ lastOp = "settleFail" /\ consecutiveErrors = MAX_CONSECUTIVE_ERRORS
  /\ ~IsRunning /\ activeTimers = {}

(* C9: a failed GC run of a tick leaves no unhandled rejection; settling it *)
(* only prints the diagnostic, increments the counter and possibly stops    *)
(* the scheduler.                                                           *)
C9_FailureContained ==
  /\ [](~unhandled)
  /\ [][SettlesAs("rejected")
          => /\ consecutiveErrors' = consecutiveErrors + 1
             /\ Len(diag') >= 1 /\ diag'[1].level = "warn"
             /\ diag'[1].n = consecutiveErrors'
             /\ timer' = timer \/ (~IsRunning' /\ activeTimers' = {})
             /\ \A s \in 1..MaxRuns : runs'[s] = runs[s] \/ runs[s].pc = "rejected"
             /\ UNCHANGED <<ctxVars, clockVars>>]_vars

\* The failure of a throwing expiry predicate has been settled by the catch handler.
C9_Witness ==
  /\ lastOp = "settleFail" /\ ~unhandled
  /\ Len(diag) >= 1 /\ diag[1].err = "isExpired"

\* The entries of a listing, from i on, that hold a record with expiresAt <= now.
RECURSIVE ExpiredIndexes(_, _, _)
ExpiredIndexes(list, i, nowv) ==
  IF i > Len(list) THEN <<>>
  ELSE IF /\ list[i].t = "obj" /\ nowv.t = "num"
          /\ list[i].expiresAt.t = "num" /\ list[i].expiresAt.v <= nowv.v
          /\ list[i].expiresAt.v >= 0 /\ list[i].expiresAt.v <= MAX_TIMESTAMP
    THEN <<i>> \o ExpiredIndexes(list, i + 1, nowv)
  ELSE ExpiredIndexes(list, i + 1, nowv)

(* C10: no GC run starts while the scheduler is Stopped, stop() leaves the  *)
(* runs in flight untouched, and a run that completes has invoked onExpire  *)
(* for every expired record of its listing, stopped or not.                 *)
C10_StopLeavesRunsAlone ==
  /\ [][(\E s \in 1..MaxRuns : runs[s] = NULL /\ runs'[s] # NULL) => IsRunning]_vars
  /\ [][(lastOp' = "stop" /\ lastOp # "stop") => runs' = runs]_vars
  /\ [](\A s \in 1..MaxRuns :
          (runs[s] # NULL /\ runs[s].pc = "fulfilled" /\ hasOnExpire)
            => runs[s].invoked = ExpiredIndexes(runs[s].list, 1, runs[s].now))

\* After stop() a run started earlier has gone on to its second onExpire call.
C10_Witness ==
  /\ ~IsRunning /\ lastOp = "expire" /\ consecutiveErrors < MAX_CONSECUTIVE_ERRORS
  /\ \E s \in 1..MaxRuns : runs[s] # NULL /\ runs[s].pc = "expiring" /\ runs[s].idx = 2

\* A run whose promise has settled without listMetas or isExpired failing.
Attempted(run) ==
  /\ run # NULL
  /\ run.pc \in {"fulfilled", "rejected"}
  /\ run.err \notin {"listMetas", "isExpired"}

(* C11: a GC run in which every onExpire call succeeds resolves with the    *)
(* number N of expired records of its listing, has invoked onExpire once    *)
(* for each of them and for no other entry, resolves with 0 and no call     *)
(* over an empty listing, and counts the same N when no onExpire is given.  *)
C11_CountsAndInvokesExpired ==
  \A s \in 1..MaxRuns :
    (runs[s] # NULL /\ runs[s].pc = "fulfilled") =>
      LET ex == ExpiredIndexes(runs[s].list, 1, runs[s].now)
      IN  /\ runs[s].expired = Len(ex)
          /\ runs[s].invoked = IF hasOnExpire THEN ex ELSE <<>>
          /\ runs[s].list = <<>> => (runs[s].expired = 0 /\ runs[s].invoked = <<>>)

\* A run over two expired records and a live one resolved with 2 after two calls.
C11_Witness ==
  /\ runs[1] # NULL /\ runs[1].pc = "fulfilled" /\ hasOnExpire
  /\ Len(runs[1].list) = 3 /\ runs[1].expired = 2 /\ Len(runs[1].invoked) = 2
  /\ \E i \in 1..3 : runs[1].list[i] = Meta("a", Undefined)

(* C12: when onExpire rejects for one expired record, the run has still     *)
(* invoked onExpire for every other expired record of the listing by the    *)
(* time it surfaces that failure.                                           *)
C12_AllExpiredAttempted ==
  \A s \in 1..MaxRuns :
    (runs[s] # NULL /\ runs[s].pc = "rejected" /\ runs[s].err = "onExpire") =>
      runs[s].invoked = ExpiredIndexes(runs[s].list, 1, runs[s].now)

(* C13: a GC run whose listing was obtained settles by returning the number *)
(* of records judged expired, also when onExpire rejected for some of them. *)
C13_CountDespiteFailure ==
  \A s \in 1..MaxRuns :
    Attempted(runs[s]) =>
      /\ runs[s].pc = "fulfilled"
      /\ runs[s].expired = Len(ExpiredIndexes(runs[s].list, 1, runs[s].now))

\* The first n entries of a listing.
Prefix(list, n) == SubSeq(list, 1, IF n < Len(list) THEN n ELSE Len(list))

(* C14: a GC run reads the clock once, when it is called and before the     *)
(* listing is requested; the reading never changes while the run is in      *)
(* flight and every expiry decision of the run is taken against it, however *)
(* far real time has moved on meanwhile.                                    *)
C14_SingleClockSample ==
  /\ [][\A s \in 1..MaxRuns :
          /\ (runs[s] = NULL /\ runs'[s] # NULL) =>
                /\ runs'[s].pc = "listing"
                /\ runs'[s].now \in {FreshClockReading(wall), NaN}
          /\ (runs[s] # NULL /\ runs'[s] # NULL) => runs'[s].now = runs[s].now]_vars
  /\ [](\A s \in 1..MaxRuns :
          (runs[s] # NULL /\ runs[s].pc \in {"expiring", "fulfilled"}) =>
            LET seen == ExpiredIndexes(Prefix(runs[s].list, runs[s].idx), 1, runs[s].now)
            IN  IF hasOnExpire THEN runs[s].invoked = seen
                ELSE runs[s].expired = Len(seen))

\* A run started at 0 resolved with 0 at time 3 over a record that expired at 1.
C14_Witness ==
  /\ runs[1] # NULL /\ runs[1].pc = "fulfilled" /\ runs[1].now = Num(0)
  /\ wall = 3 /\ runs[1].expired = 0
  /\ \E i \in 1..Len(runs[1].list) : runs[1].list[i] = Meta("b", Num(1))

\* A listing without its absent entries.
RECURSIVE Compact(_)
Compact(list) ==
  IF list = <<>> THEN <<>>
  ELSE IF Falsy(Head(list)) THEN Compact(Tail(list))
  ELSE <<Head(list)>> \o Compact(Tail(list))

(* C15: a null or undefined entry of the listing is skipped: it raises no   *)
(* error, is not counted, is never handed to onExpire, and the run resolves *)
(* as it would over the listing without the absent entries.                 *)
C15_AbsentEntriesSkipped ==
  \A s \in 1..MaxRuns :
    (runs[s] # NULL /\ runs[s].pc # "listing") =>
      /\ \A k \in 1..Len(runs[s].invoked) : ~Falsy(runs[s].list[runs[s].invoked[k]])
      /\ (runs[s].pc = "rejected" /\ runs[s].err = "isExpired") =>
            ~Falsy(runs[s].list[runs[s].idx])
      /\ runs[s].pc = "fulfilled" =>
            LET ex == ExpiredIndexes(Compact(runs[s].list), 1, runs[s].now)
            IN  /\ runs[s].expired = Len(ex)
                /\ hasOnExpire => Len(runs[s].invoked) = Len(ex)

\* A run over null, undefined and an expired record resolved with 1 after
\* calling onExpire for the third entry only.
C15_Witness ==
  /\ runs[1] # NULL /\ runs[1].pc = "fulfilled" /\ hasOnExpire
  /\ Len(runs[1].list) = 3
  /\ runs[1].list[1] = NULL /\ runs[1].list[2] = Undefined
  /\ runs[1].invoked = <<3>> /\ runs[1].expired = 1

(* C16: within one GC run the onExpire calls are sequential: a call is made *)
(* only when the listing or the previous call has settled, so at most one   *)
(* is in flight, and no entry of the listing gets more than one call.       *)
C16_SequentialOnExpire ==
  /\ [](\A s \in 1..MaxRuns :
          (runs[s] # NULL /\ hasOnExpire) =>
            /\ Len(runs[s].invoked) <= runs[s].expired + 1
            /\ runs[s].pc = "expiring" =>
                  /\ Len(runs[s].invoked) = runs[s].expired + 1
                  /\ runs[s].invoked[Len(runs[s].invoked)] = runs[s].idx
            /\ runs[s].pc = "fulfilled" => Len(runs[s].invoked) = runs[s].expired
            /\ \A j, k \in 1..Len(runs[s].invoked) :
                  j < k => runs[s].invoked[j] < runs[s].invoked[k])
  /\ [][\A s \in 1..MaxRuns :
          (runs[s] # NULL /\ runs'[s] # NULL
             /\ Len(runs'[s].invoked) # Len(runs[s].invoked)) =>
            /\ Len(runs'[s].invoked) = Len(runs[s].invoked) + 1
            /\ runs[s].pc \in {"listing", "expiring"}
            /\ runs[s].pc = "listing" => runs[s].invoked = <<>>
            /\ runs[s].pc = "expiring" => runs'[s].expired = runs[s].expired + 1]_vars

\* While another run is in flight, a run's second onExpire call is pending
\* after its first has settled.
C16_Witness ==
  /\ runs[1] # NULL /\ runs[2] # NULL /\ hasOnExpire
  /\ runs[2].pc = "expiring" /\ runs[2].invoked = <<1, 2>> /\ runs[2].expired = 1

(* C17: saveMeta with a record id that validateId refuses, or under a meta   *)
(* file name that sanitizePathComponent refuses, rejects without calling    *)
(* drive.put and leaves the drive as it was.                                *)
C17_InvalidSaveWritesNothing ==
  [][(/\ hyperLast'.op = "saveMeta"
      /\ hyperLast'.arg.t = "obj"
      /\ \/ ~validateMetaId(hyperLast'.arg.id)
         \/ sanitizePathComponent(hyperOpts.metaFile) = NULL)
       => (hyperLast'.rejected /\ hyperLast'.calls = <<>> /\ drive' = drive)]_vars

\* saveMeta of a record with the id "../e" was rejected on a drive holding files.
C17_Witness ==
  /\ hyperLast.op = "saveMeta" /\ hyperLast.rejected
  /\ hyperLast.arg = GoodMeta(Str(<<".", ".", "/", "e">>))
  /\ hyperOpts.metaFile = MetaJson /\ Len(drive) = 2

\* A timestamp that is present but not a finite number within [0, now + 100 years].
BadTimestamp(ts, nowv) ==
  /\ ts # Undefined
  /\ ts.t # "num" \/ ts.v < 0 \/ ts.v > nowv + HundredYears

(* C18: saveMeta of a record one of whose createdAt, updatedAt, unlockAt or *)
(* expiresAt is present but non-finite or outside [0, now + 100 years]      *)
(* rejects and stores nothing.                                              *)
C18_BadTimestampRejectedOnWrite ==
  (/\ hyperLast.op = "saveMeta"
   /\ hyperLast.arg.t = "obj"
   /\ \E f \in {"createdAt", "updatedAt", "unlockAt", "expiresAt"} :
        BadTimestamp(hyperLast.arg[f], wall))
    => (hyperLast.rejected /\ hyperLast.calls = <<>>)

\* The read-path checks of a listed record against the listing's clock reading.
PassesReadChecks(m, nowv) ==
  /\ m.t = "obj"
  /\ m.id.t = "str" /\ validateMetaId(m.id)
  /\ \A f \in {"createdAt", "updatedAt"} : m[f] # Undefined => m[f].t = "num"
  /\ \A f \in {"expiresAt", "unlockAt"} :
       m[f] # Undefined => (m[f].t = "num" /\ m[f].v >= 0 /\ m[f].v <= nowv.v + HundredYears)

(* C19: every record listMetas returns is an object whose id is a string    *)
(* validateId accepts, whose createdAt and updatedAt, if present, are       *)
(* finite numbers and whose expiresAt and unlockAt, if present, are finite  *)
(* numbers in [0, now + 100 years], now being the clock reading taken when  *)
(* that listing started.                                                    *)
C19_ListedRecordsPassChecks ==
  /\ [](hyperLast.op = "listMetas" =>
          \A k \in 1..Len(hyperLast.result) :
            PassesReadChecks(hyperLast.result[k], hyperLast.now))
  /\ [][(hyperLast'.op = "listMetas" /\ hyperLast' # hyperLast)
           => hyperLast'.now = Num(wall)]_vars

\* A listing started at time 1 returned a record that unlocks at 1 + 100 years.
C19_Witness ==
  /\ hyperLast.op = "listMetas" /\ hyperLast.now = Num(1)
  /\ \E k \in 1..Len(hyperLast.result) :
       hyperLast.result[k].unlockAt = Num(HundredYears + 1)

\* The stored records, in directory order from directory i on, that decode
\* and pass every read-path check.
RECURSIVE StoredPassing(_, _, _, _)
StoredPassing(drv, i, metaFile, nowv) ==
  IF i > Len(Readdir(drv)) THEN <<>>
  ELSE LET buf == Get(drv, Readdir(drv)[i], metaFile)
           rest == StoredPassing(drv, i + 1, metaFile, nowv)
       IN  IF /\ buf # NULL
              /\ buf.length <= MAX_META_SIZE
              /\ buf.text.t = "jobj"
              /\ PassesReadChecks(JSONparse(buf.text).value, nowv)
             THEN <<JSONparse(buf.text).value>> \o rest
           ELSE rest

(* C20: a stored record that fails to decode or fails a read-path check is  *)
(* left out of the result without failing the listing: listMetas resolves   *)
(* with exactly the stored records that pass every check, in directory      *)
(* order, whatever malformed records come before or after them.             *)
C20_MalformedDroppedOthersListed ==
  hyperLast.op = "listMetas" =>
    /\ ~hyperLast.rejected
    /\ hyperLast.result = StoredPassing(drive, 1, hyperOpts.metaFile, hyperLast.now)

\* A listing resolved with the one valid record that follows an undecodable one.
C20_Witness ==
  /\ hyperLast.op = "listMetas" /\ ~hyperLast.rejected
  /\ Len(drive) = 2 /\ drive[1].buf.text = Garbage
  /\ Len(hyperLast.result) = 1 /\ hyperLast.result[1].id = IdB

\* The characters of the alphabet that are a letter, a digit, "_" or "-".
IdChars == {"a", "Z", "0", "_", "-"}
Whitespace == {" ", "\n"}

(* C22: validateId(id) is true exactly when id is a string of 1 to 255      *)
(* characters that are all letters, digits, "_" or "-"; it is false for the *)
(* empty string, a 256-character string, a non-string and any string       *)
(* containing "..", "/", "\\" or whitespace.                                *)
C22_ValidateIdExact ==
  libCall.fn = "validateMetaId" =>
    LET id == libCall.arg
    IN  /\ libCall.out.v <=>
              /\ id.t = "str"
              /\ StrLength(id) >= 1 /\ StrLength(id) <= 255
              /\ \A i \in 1..Len(id.s) : id.s[i] \in IdChars
        /\ id.t # "str" => ~libCall.out.v
        /\ id.t = "str" =>
              /\ StrLength(id) \in {0, 256} => ~libCall.out.v
              /\ (\E i \in 1..Len(id.s) : id.s[i] \in {"/", "\\"} \cup Whitespace)
                    => ~libCall.out.v
              /\ (\E i \in 1..(Len(id.s) - 1) : id.s[i] = "." /\ id.s[i + 1] = ".")
                    => ~libCall.out.v

\* validateMetaId accepted an id of exactly 255 characters.
C22_Witness ==
  /\ libCall.fn = "validateMetaId" /\ libCall.out.v
  /\ TypeofString(libCall.arg) /\ StrLength(libCall.arg) = 255 /\ Len(libCall.arg.s) = MaxStrLen

(* C23: sanitizePathComponent(c) returns null when c is not a string,       *)
(* contains "..", "/" or "\\", is empty or is longer than 255 characters,   *)
(* and returns c itself otherwise: never a changed or shortened component.  *)
C23_SanitizeRejectsOrKeeps ==
  libCall.fn = "sanitizePathComponent" =>
    LET c == libCall.arg
        bad == \/ c.t # "str"
               \/ \E i \in 1..Len(c.s) : c.s[i] \in {"/", "\\"}
               \/ \E i \in 1..(Len(c.s) - 1) : c.s[i] = "." /\ c.s[i + 1] = "."
               \/ StrLength(c) = 0
               \/ StrLength(c) > 255
    IN  /\ bad => libCall.out = NULL
        /\ ~bad => libCall.out = c
        /\ libCall.out \in {NULL, c}

\* sanitizePathComponent returned a 255-character name with a dot and a space as it was.
C23_Witness ==
  /\ libCall.fn = "sanitizePathComponent" /\ libCall.out = libCall.arg
  /\ TypeofString(libCall.arg) /\ StrLength(libCall.arg) = 255
  /\ Len(libCall.arg.s) >= 2
  /\ libCall.arg.s[1] = "." /\ libCall.arg.s[2] = " "

\* A finite number: the only kind of `now` the predicates accept.
FiniteNow(n) == n.t = "num"
\* A timestamp field that is present and passes bounds validation: a finite
\* number from 0 to the ceiling of 100 years.
InBounds(x) == x.t = "num" /\ x.v >= 0 /\ x.v <= ModuleLoadTime + HundredYears
Absent(m) == m.t \in {"null", "undef"}

(* C24: for every record and finite now, isExpired is true for an absent    *)
(* record, false when expiresAt is absent or fails bounds validation (not a *)
(* number, not finite, negative, above the 100-year ceiling), and          *)
(* expiresAt <= now otherwise: true at expiresAt = now, false one before.  *)
C24_IsExpiredCases ==
  (libCall.fn = "isExpired" /\ FiniteNow(libCall.now)) =>
    LET m == libCall.arg
        n == libCall.now.v
    IN  /\ Absent(m) => libCall.out = Bool(TRUE)
        /\ (~Absent(m) /\ ~InBounds(m.expiresAt)) => libCall.out = Bool(FALSE)
        /\ (~Absent(m) /\ InBounds(m.expiresAt)) =>
              /\ libCall.out = Bool(m.expiresAt.v <= n)
              /\ m.expiresAt.v = n => libCall.out.v
              /\ m.expiresAt.v = n + 1 => ~libCall.out.v

\* isExpired answered true for a record whose expiresAt is exactly now.
C24_Witness ==
  /\ libCall.fn = "isExpired" /\ libCall.now = Num(1)
  /\ ~Absent(libCall.arg) /\ libCall.arg.expiresAt = Num(1)
  /\ libCall.out = Bool(TRUE)

(* C25: for every record and finite now, isUnlocked is false for an absent  *)
(* record, true when unlockAt is absent or fails bounds validation, and    *)
(* unlockAt <= now otherwise: true at unlockAt = now, false one before.    *)
C25_IsUnlockedCases ==
  (libCall.fn = "isUnlocked" /\ FiniteNow(libCall.now)) =>
    LET m == libCall.arg
        n == libCall.now.v
    IN  /\ Absent(m) => libCall.out = Bool(FALSE)
        /\ (~Absent(m) /\ ~InBounds(m.unlockAt)) => libCall.out = Bool(TRUE)
        /\ (~Absent(m) /\ InBounds(m.unlockAt)) =>
              /\ libCall.out = Bool(m.unlockAt.v <= n)
              /\ m.unlockAt.v = n => libCall.out.v
              /\ m.unlockAt.v = n + 1 => ~libCall.out.v

\* isUnlocked answered false for a record that unlocks one unit after now.
C25_Witness ==
  /\ libCall.fn = "isUnlocked" /\ libCall.now = Num(1)
  /\ ~Absent(libCall.arg) /\ libCall.arg.unlockAt = Num(2)
  /\ libCall.out = Bool(FALSE)

(* C26: for a finite now, isVisible(record, now) is isUnlocked AND NOT      *)
(* isExpired for every combination of present and absent unlockAt and      *)
(* expiresAt, and an absent record is never visible, whatever now is.      *)
C26_VisibleIffUnlockedAndNotExpired ==
  libCall.fn = "isVisible" =>
    LET m == libCall.arg
        n == libCall.now
        unlocked == InBounds(m.unlockAt) => m.unlockAt.v <= n.v
        expired == InBounds(m.expiresAt) /\ m.expiresAt.v <= n.v
    IN  /\ Absent(m) => libCall.out = Bool(FALSE)
        /\ (~Absent(m) /\ FiniteNow(n)) => libCall.out = Bool(unlocked /\ ~expired)

\* isVisible answered false for an unlocked record that has expired.
C26_Witness ==
  /\ libCall.fn = "isVisible" /\ libCall.now = Num(1)
  /\ ~Absent(libCall.arg)
  /\ libCall.arg.unlockAt = Num(0) /\ libCall.arg.expiresAt = Num(1)
  /\ libCall.out = Bool(FALSE)

C21_BackendPathsValidated ==
  \A i \in 1..Len(hyperLast.calls) :
    /\ validateMetaId(hyperLast.calls[i].dir)
    /\ sanitizePathComponent(hyperLast.calls[i].name) # NULL

\* The meta file of record m is on the drive as saveMeta writes it.
StoredBySave(drv, m) ==
  Get(drv, m.id, hyperOpts.metaFile) = BufferFrom(JSONstringify(m))
\* A step that is one runOnce() of the adapter.
RunOnceStep == wall' = wall /\ lastOp' = "runOnce"
InvokedFor(id) == {k \in 1..Len(hyperLast'.arg) : hyperLast'.arg[k].id = id}
ValidNames(files) == \A k \in 1..Len(files) : sanitizePathComponent(files[k]) # NULL

(* C28: end to end, on a drive whose del works and with valid names in      *)
(* filesToDelete: a run with now = T over a record stored through saveMeta  *)
(* with expiresAt before T resolves, invokes onExpire exactly once for the  *)
(* record and leaves no file named in filesToDelete under its directory;   *)
(* when it is the only record on the drive the run returns {expired: 1}.   *)
C28_StoredExpiredRecordCollected ==
  [][\A m \in AdapterMetas :
       (/\ RunOnceStep
        /\ backend.del = "ok"
        /\ ValidNames(hyperOpts.filesToDelete)
        /\ StoredBySave(drive, m)
        /\ m.expiresAt.v < hyperLast'.now.v) =>
         /\ ~hyperLast'.rejected
         /\ Cardinality(InvokedFor(m.id)) = 1
         /\ \A k \in 1..Len(hyperOpts.filesToDelete) :
              ~Exists(drive', m.id, hyperOpts.filesToDelete[k])
         /\ Readdir(drive) = <<m.id>> => hyperLast'.result = [expired |-> 1]]_vars

\* A run at time 1 returned {expired: 1} and removed the meta file and the
\* payload of the one record on the drive, which expired at 0.
C28_Witness ==
  /\ lastOp = "runOnce" /\ hyperLast.op = "runOnce"
  /\ hyperLast.now = Num(1)
  /\ hyperOpts.filesToDelete = <<MetaJson, Payload>>
  /\ hyperLast.result = [expired |-> 1]
  /\ Len(hyperLast.arg) = 1 /\ hyperLast.arg[1].expiresAt = Num(0)
  /\ hyperLast.calls =
       <<Call("get", IdA, MetaJson), Call("del", IdA, MetaJson), Call("del", IdA, Payload),
         Call("exists", IdA, MetaJson), Call("exists", IdA, Payload)>>
  /\ drive = <<>>

(* C29: whenever a run through the adapter resolves having counted a       *)
(* record as expired, no file named in filesToDelete still exists under    *)
(* the record's directory, also when drive.del calls fail or report        *)
(* success without removing the file.                                      *)
C29_CountedRecordsFilesRemoved ==
  (lastOp = "runOnce" /\ hyperLast.op = "runOnce" /\ ~hyperLast.rejected) =>
    \A i \in 1..Len(hyperLast.arg) :
      \A k \in 1..Len(hyperOpts.filesToDelete) :
        ~Exists(drive, hyperLast.arg[i].id, hyperOpts.filesToDelete[k])

(* C36: in every reachable state of a scheduler, under any interleaving of *)
(* timer ticks, GC run settlements, start() and stop(), the                *)
(* consecutive-failure counter lies between 0 and the ceiling 5 inclusive. *)
C36_CounterWithinCeiling ==
  consecutiveErrors >= 0 /\ consecutiveErrors <= MAX_CONSECUTIVE_ERRORS

(* C31: a start() of a scheduler that stopped itself makes it Running with the
   counter at zero, and the restarted scheduler stops itself again only in the
   reaction to a rejection that is at least the fifth in a row since that
   start(). *)
C31_RestartAfterSelfStop ==
  [][ /\ (stopCause = "self" /\ Falsy(timer) /\ lastOp' = "start")
          => (IsRunning' /\ consecutiveErrors' = 0 /\ failsSinceReset' = 0)
      /\ (stopCause = "self" /\ ~Falsy(timer) /\ Falsy(timer') /\ lastOp' = "settleFail")
          => failsSinceReset' >= MAX_CONSECUTIVE_ERRORS ]_vars

\* A restarted scheduler is still Running after four new failures in a row.
C31_Witness ==
  /\ stopCause = "self"
  /\ IsRunning
  /\ lastOp = "settleFail"
  /\ consecutiveErrors = MAX_CONSECUTIVE_ERRORS - 1
  /\ failsSinceReset = MAX_CONSECUTIVE_ERRORS - 1

(* C32: a GC Run is started only by a timer tick of a Running scheduler: no
   step of start() or stop() starts one, and none is started while the
   scheduler is Stopped. *)
C32_RunsStartOnlyOnTicks ==
  [][ \A s \in 1..MaxRuns :
        (runs[s] = NULL /\ runs'[s] # NULL)
          => (lastOp' = "tick" /\ IsRunning /\ timer.v \in activeTimers) ]_vars

\* The first tick after a stop() and a later start() has started a run.
C32_Witness ==
  /\ lastOp = "tick"
  /\ stopCause = "caller"
  /\ IsRunning
  /\ Cardinality(InFlight) = 1

\* Run s has been started and its backend call has not answered.
Hung(s) == runs[s] # NULL /\ runs[s].pc \in {"listing", "expiring"}

(* C33: a run that has not settled leaves the counter alone (the counter
   changes only in the step that runs the reactions of a settled run, or in an
   effective start()), and while a run hangs the interval of the Running
   scheduler can still fire and start a run of its own. *)
C33_HungRunBlocksNothing ==
  [][ /\ ((\A s \in 1..MaxRuns : Hung(s) => runs'[s] # NULL)
            /\ (\A s \in 1..MaxRuns : runs[s] # NULL /\ ~Hung(s) => runs'[s] # NULL)
            /\ ~(Falsy(timer) /\ ~Falsy(timer')))
          => consecutiveErrors' = consecutiveErrors
      /\ (IsRunning /\ (\E s \in 1..MaxRuns : Hung(s)) /\ ~ReactionPending
            /\ FreeSlots # {})
          => ENABLED (\E t \in activeTimers, n \in NowValues : Tick(t, n, FALSE)) ]_vars

\* A tick has just started a run while the run of an earlier tick hangs, in
\* a scheduler that has counted one failure.
C33_Witness ==
  /\ IsRunning
  /\ lastOp = "tick"
  /\ Cardinality(InFlight) = 2
  /\ \A s \in InFlight : Hung(s)
  /\ consecutiveErrors = 1

\* Run s was started by a tick fired before the latest effective start().
StartedBeforeRestart(s) == runs[s] # NULL /\ runs[s].tick = 0

(* C37: in a scheduler restarted by the caller after a stop(), the reactions
   of a run started before that restart change neither the counter nor the
   timer. *)
C37_OldRunsDoNotAffectRestart ==
  [][ \A s \in 1..MaxRuns :
        (stopCause = "caller" /\ IsRunning
           /\ StartedBeforeRestart(s) /\ runs'[s] = NULL)
          => (consecutiveErrors' = consecutiveErrors /\ timer' = timer) ]_vars

(* C40 as stated: two clock instances made at the same reading with the same
   maxForwardMs return the same value at every reading, whatever their two
   values of maxBackwardsMs. *)
C40_IndependentOfTolerance ==
  libCall.fn = "now" => (ret = libCall.out /\ last = libCall.now)

(* C40, amended: the same for two instances whose maxBackwardsMs are both
   non-negative. *)
C40_IndependentOfNonNegativeTolerance ==
  (libCall.fn = "now" /\ maxBackwardsMs >= 0 /\ libCall.arg >= 0)
    => (ret = libCall.out /\ last = libCall.now)

\* Both instances have answered a reading that lies behind `last` by more than
\* the tolerance of one and within the tolerance of the other.
C40_Witness ==
  /\ libCall.fn = "now"
  /\ maxBackwardsMs >= 0
  /\ libCall.arg > maxBackwardsMs
  /\ wall + maxBackwardsMs < last
  /\ wall + libCall.arg >= libCall.now
  /\ ret = libCall.out

\* What a caller and the context see of a settled run: how it settled, the
\* count it returns and the records onExpire was invoked with, in order.
Observed(run) ==
  [pc |-> run.pc,
   expired |-> IF run.pc = "fulfilled" THEN run.expired ELSE 0,
   invoked |-> [j \in 1..Len(run.invoked) |-> run.list[run.invoked[j]]]]

\* Enumeration through fn fails.
EnumerationFails(fn) ==
  \/ fn.kind \in {"throws", "rejects", "array", "undefined"}
  \/ fn.kind = "asyncIterable" /\ fn.failAfter # NULL

(* C34: a run over an async sequence that yields all its entries and a run
   over a promise fulfilled with the array of the same entries settle the same
   way, return the same count and invoke onExpire with the same records in
   the same order. *)
C34_LazyAndEagerAgree ==
  (libCall.fn = "runEphemeralGC" /\ libCall.arg.kind \in {"promise", "asyncIterable"}
     /\ ~EnumerationFails(libCall.arg))
    => Observed(libCall.out.run) = Observed(libCall.out.other)

\* A run over an async sequence that expired two records through onExpire.
C34_Witness ==
  /\ libCall.fn = "runEphemeralGC"
  /\ libCall.arg.kind = "asyncIterable"
  /\ libCall.arg.failAfter = NULL
  /\ hasOnExpire
  /\ libCall.out.run.pc = "fulfilled"
  /\ libCall.out.run.expired = 2
  /\ Len(libCall.out.run.invoked) = 2
  /\ libCall.out.other.expired = 2

(* C35: when enumeration fails the run rejects with that failure and onExpire
   has been invoked for no record, also not for the expired records an async
   sequence yielded before it threw. *)
C35_FailedEnumerationExpiresNothing ==
  (libCall.fn = "runEphemeralGC" /\ EnumerationFails(libCall.arg))
    => /\ libCall.out.run.pc = "rejected"
       /\ libCall.out.run.err = "listMetas"
       /\ libCall.out.run.invoked = <<>>
       /\ expiredLog = {}

\* An async sequence threw after yielding an expired record, with onExpire
\* supplied.
C35_Witness ==
  /\ libCall.fn = "runEphemeralGC"
  /\ libCall.arg.kind = "asyncIterable"
  /\ libCall.arg.failAfter # NULL
  /\ libCall.arg.failAfter.v >= 1
  /\ hasOnExpire
  /\ ~Falsy(metas[1])
  /\ ~isExpired(metas[1], libCall.now).throws
  /\ isExpired(metas[1], libCall.now).value
  /\ libCall.out.run.pc = "rejected"

\* The directories whose meta file the latest listing read and kept, in the
\* order of the listing.
KeptDirs ==
  SelectSeq(hyperLast.calls,
            LAMBDA c : /\ c.fn = "get"
                       /\ ~Falsy(Get(drive, c.dir, c.name))
                       /\ ~readEntry(Get(drive, c.dir, c.name), hyperLast.now).throws
                       /\ readEntry(Get(drive, c.dir, c.name), hyperLast.now).kept)

(* C38: every record listMetas returns has as its id the name of the
   directory its meta file was read from. *)
C38_ListedIdIsDirectoryName ==
  (hyperLast.op = "listMetas" /\ ~hyperLast.rejected)
    => /\ Len(hyperLast.result) = Len(KeptDirs)
       /\ \A i \in 1..Len(hyperLast.result) : hyperLast.result[i].id = KeptDirs[i].dir

\* The run that runOnce() would make now, with nothing written since the
\* latest one.
NextRunNow ==
  runOnce(drive, hyperOpts, backend,
          Num(now(wall, last, startTime, maxBackwardsMs, maxForwardMs).value), wall)

(* C39: after a run that resolved having invoked onExpire for some records,
   listMetas returns none of them any more, and the next run with nothing
   written in between invokes onExpire for nothing and returns expired 0,
   whatever filesToDelete and metaFile are. *)
C39_ExpiredAtMostOnce ==
  (hyperLast.op = "runOnce" /\ ~hyperLast.rejected /\ Len(hyperLast.arg) >= 1)
    => /\ \A i \in 1..Len(hyperLast.arg) :
            \A j \in 1..Len(listMetasFromHyperdrive(drive, hyperOpts.metaFile, wall).metas) :
               listMetasFromHyperdrive(drive, hyperOpts.metaFile, wall).metas[j]
                 # hyperLast.arg[i]
       /\ NextRunNow.invoked = <<>>
       /\ NextRunNow.expired = 0

=========================================================================
